---- MODULE Spec2Model ----
(***************************************************************************)
(* Bulk payroll: one uploaded job, its rows, the BullMQ queue, the worker  *)
(* processes that execute the job and the cancel route of the API.         *)
(*                                                                         *)
(* Every repository call of the source is one step, so that a cancel      *)
(* request, a second worker process or a reader may act between any two    *)
(* of them; one iteration of the retry loop of a row is one step, and the  *)
(* rows of a batch take their steps in any order.                          *)
(***************************************************************************)
EXTENDS Integers, Sequences, FiniteSets, TLC

(* ---------------------------------------------------------------------- *)
(* Bounds                                                                  *)
(* ---------------------------------------------------------------------- *)
MaxRows == 2            \* rows of one upload
MaxBatchSize == 2       \* largest BATCH_SIZE the worker is configured with
MaxRetriesCfg == 2      \* largest MAX_RETRIES the worker is configured with
MaxCancels == 2         \* cancel requests issued against the job
MaxStalledCount == 1    \* times the queue makes a stalled unit wait again

Workers == {"w1", "w2"}  \* worker processes consuming the queue
Before(v, w) == v = "w1" /\ w = "w2"
Cancels == 1..MaxCancels

(* ---------------------------------------------------------------------- *)
(* Values                                                                  *)
(* ---------------------------------------------------------------------- *)
NULL == "null"          \* SQL NULL / JavaScript undefined
Owner == "owner"        \* the uploader of the job
Users == {Owner, "other"}

TerminalJob == {"COMPLETED", "FAILED", "CANCELLED"}
TerminalRow == {"SUCCESS", "FAILED"}

DefaultMaxRetries == 3  \* bulk_payroll_rows.maxRetries DEFAULT 3

\* What one createPayment call can do: resolve with success, resolve with a
\* reported failure carrying an error string, throw an Error, or throw a
\* value that is not an Error.
NonError == "<non-Error>"
Outcomes ==
    { [kind |-> "success", error |-> NULL],
      [kind |-> "failure", error |-> "Insufficient funds"],
      [kind |-> "throw",   error |-> NonError] }

NoCall == [kind |-> "none", error |-> NULL]

VARIABLES
    BATCH_SIZE,     \* worker configuration
    MAX_RETRIES,    \* worker configuration
    REDIS_URL,      \* TRUE iff REDIS_URL is set in the API process
    bulkPayrollJob, \* table bulk_payroll_jobs: << >> or <<the job>>
    bulkPayrollRow, \* table bulk_payroll_rows of the job, by rowIndex + 1
    queue,          \* number of waiting units of work for the job
    deliveries,     \* number of times a unit of the job was handed to a worker
    wk,             \* per worker process: the execution of the processor
    settled,        \* how the unit of work ended: NULL, "completed" or the
                    \* error the processor threw to the dispatch layer
    cancel,         \* per cancel request: its position and response
    MAX_ROWS_PER_UPLOAD, \* configuration of the upload route
    TZ,             \* minutes the local time of the API process is ahead of UTC
    upload,         \* the upload request: its position and response
    parsedRows,     \* the raw rows of the request (rows of validatePayrollRows)
    columnMapping,  \* << >> or <<the mapping>>: result of detectColumnMapping,
                    \* argument of validatePayrollRows
    parsed,         \* << >> or <<the result of validatePayrollRows>>
    headers,        \* argument of detectColumnMapping
    adapters,       \* FakePaymentsAdapter instances: their constructor options
    results,        \* the calls of createPayment made, with their results
    csv             \* rows exported by rowsToCSV, the text and its parseCSV

vars == <<BATCH_SIZE, MAX_RETRIES, REDIS_URL, bulkPayrollJob, bulkPayrollRow,
          queue, deliveries, wk, settled, cancel, MAX_ROWS_PER_UPLOAD, TZ, upload,
          parsedRows, columnMapping, parsed, headers, adapters, results,
          csv>>

config == <<BATCH_SIZE, MAX_RETRIES, REDIS_URL>>

\* The detailed upload request, which the worker and the job routes never
\* see, and the arguments and results of the library functions.
uploadVars == <<MAX_ROWS_PER_UPLOAD, TZ, upload, parsedRows, columnMapping, parsed>>
libVars == <<headers, adapters, results, csv>>

Job == bulkPayrollJob[1]
JobExists == Len(bulkPayrollJob) = 1

Min(a, b) == IF a < b THEN a ELSE b

Pow2(k) == IF k <= 0 THEN 1 ELSE 2 ^ k

(* ---------------------------------------------------------------------- *)
(* processPaymentRow                                                       *)
(* ---------------------------------------------------------------------- *)

\* The message of lastError after a failed call.
ErrorMessageOf(outcome) ==
    IF outcome.kind = "failure" THEN outcome.error
    ELSE IF outcome.error = NonError THEN "Unknown error"
    ELSE outcome.error

\* The retry loop is left without the promise of the row being settled.
ExhaustedResultNeverSettles(p) == [p EXCEPT !.pc = "pending"]

\* The value returned after the retry loop is left without a success.
ExhaustedResult(p) ==
    [p EXCEPT !.pc = "done",
              !.success = FALSE,
              !.errorMessage = IF p.lastError = NULL
                               THEN "Payment processing failed"
                               ELSE p.lastError]

\* The loop test with <= for <: one iteration too many.
LoopTestOffByOne(p, maxRetries) ==
    IF p.attempts <= maxRetries THEN [p EXCEPT !.pc = "call"]
    ELSE ExhaustedResult(p)

\* Loop test at the top of the while loop.
LoopTest(p, maxRetries) ==
    IF p.attempts < maxRetries THEN [p EXCEPT !.pc = "call"]
    ELSE ExhaustedResult(p)

\* Entry of processPaymentRow: attempts = 0, lastError = null, then the
\* first loop test.
ProcStart(maxRetries) ==
    LoopTest([pc |-> "call", attempts |-> 0, lastError |-> NULL,
              success |-> FALSE, providerResponse |-> NULL,
              errorMessage |-> NULL, calls |-> 0, last |-> NoCall,
              delay |-> 0], maxRetries)

\* The iteration waits also after the last attempt.
BackoffDelayAlways(attempts, maxRetries) == Pow2(attempts - 1) * 1000

\* The wait at the end of an iteration that did not succeed, in ms (0: the
\* iteration does not wait).
BackoffDelay(attempts, maxRetries) ==
    IF attempts < maxRetries THEN Pow2(attempts - 1) * 1000 ELSE 0

\* The iteration without its try/catch: an exception of createPayment
\* rejects the promise of the row.
ProcAttemptRethrows(p, outcome, maxRetries) ==
    LET q == [p EXCEPT !.attempts = @ + 1, !.calls = @ + 1,
                       !.last = outcome]
    IN  IF outcome.kind = "success"
        THEN [q EXCEPT !.pc = "done", !.success = TRUE, !.delay = 0,
                       !.providerResponse = "completed"]
        ELSE IF outcome.kind = "throw"
        THEN [q EXCEPT !.pc = "rejected", !.delay = 0,
                       !.lastError = ErrorMessageOf(outcome)]
        ELSE LoopTest([q EXCEPT !.lastError = ErrorMessageOf(outcome),
                                !.delay = BackoffDelay(q.attempts, maxRetries)],
                      maxRetries)

\* One iteration of the loop: attempts++, the createPayment call, the
\* handling of its outcome, the backoff and the next loop test.
ProcAttempt(p, outcome, maxRetries) ==
    LET q == [p EXCEPT !.attempts = @ + 1, !.calls = @ + 1,
                       !.last = outcome]
    IN  IF outcome.kind = "success"
        THEN [q EXCEPT !.pc = "done", !.success = TRUE, !.delay = 0,
                       !.providerResponse = "completed"]
        ELSE LoopTest([q EXCEPT !.lastError = ErrorMessageOf(outcome),
                                !.delay = BackoffDelay(q.attempts, maxRetries)],
                      maxRetries)

(* ---------------------------------------------------------------------- *)
(* Initial state: empty store, idle workers, no request issued             *)
(* ---------------------------------------------------------------------- *)
IdleWorker ==
    [pc |-> "idle", n |-> 0, i |-> 0, j |-> 0,
     processedCount |-> 0, successCount |-> 0, failedCount |-> 0,
     proc |-> << >>, error |-> NULL]

NewCancel == [pc |-> "idle", read |-> NULL, response |-> 0]

DefaultMaxRowsPerUpload == 5000  \* parseInt(MAX_ROWS_PER_UPLOAD || '5000')

NoUpload == [pc |-> "idle", response |-> NULL]

\* No detailed upload request is in progress.
UploadIdle ==
    /\ MAX_ROWS_PER_UPLOAD = DefaultMaxRowsPerUpload
    /\ TZ = 0
    /\ upload = NoUpload
    /\ parsedRows = << >>
    /\ columnMapping = << >>
    /\ parsed = << >>

\* No library function is under examination.
NoCsv == [rows |-> << >>, allHeaders |-> << >>, content |-> << >>,
          parsed |-> << >>]

LibIdle ==
    /\ headers = << >>
    /\ adapters = << >>
    /\ results = << >>
    /\ csv = NoCsv

Init ==
    /\ BATCH_SIZE \in 1..MaxBatchSize
    /\ MAX_RETRIES \in 0..MaxRetriesCfg
    /\ REDIS_URL \in BOOLEAN
    /\ bulkPayrollJob = << >>
    /\ bulkPayrollRow = << >>
    /\ queue = 0
    /\ deliveries = 0
    /\ wk = [w \in Workers |-> IdleWorker]
    /\ settled = NULL
    /\ cancel = [c \in Cancels |-> NewCancel]
    /\ UploadIdle
    /\ LibIdle

(* ---------------------------------------------------------------------- *)
(* Upload route: job and row creation, enqueue                             *)
(* ---------------------------------------------------------------------- *)
NewRow(idx) ==
    [rowIndex |-> idx, status |-> "PENDING", attempts |-> 0,
     maxRetries |-> DefaultMaxRetries, providerResponse |-> NULL,
     errorMessage |-> NULL]

\* prisma.bulkPayrollJob.create: the data of the route and the defaults of
\* the columns.
NewJob(user, total, valid, invalid) ==
    [uploaderId |-> user, status |-> "QUEUED",
     totalRows |-> total, validRows |-> valid, invalidRows |-> invalid,
     processedRows |-> 0, failedRows |-> 0,
     startedAt |-> FALSE, completedAt |-> FALSE]

\* The upload adds the unit of work twice.
EnqueueTwice(redis) == IF redis THEN 2 ELSE 0

\* Units added to the queue by one accepted upload.
Enqueue(redis) == IF redis THEN 1 ELSE 0

\* An accepted upload of total rows of which valid passed validation.
Upload(total, valid) ==
    /\ ~JobExists
    /\ total \in 1..MaxRows
    /\ valid \in 0..total
    /\ bulkPayrollJob' = << NewJob(Owner, total, valid, total - valid) >>
    /\ bulkPayrollRow' = [k \in 1..valid |-> NewRow(k - 1)]
    /\ queue' = queue + Enqueue(REDIS_URL)
    /\ UNCHANGED <<config, uploadVars, libVars, deliveries, wk, settled, cancel>>

(* ---------------------------------------------------------------------- *)
(* Worker: the processor callback of new Worker('bulk-payroll', ...)       *)
(* ---------------------------------------------------------------------- *)
Exec(w) == wk[w]

\* Rows of the batch that starts at offset i of a snapshot of n rows:
\* rows.slice(i, i + BATCH_SIZE).
BatchLen(n, i, size) == Min(size, n - i)

\* batch.map((row) => processPaymentRow(row, logger, MAX_RETRIES))
StartBatch(e, i) ==
    [e EXCEPT !.pc = "rows", !.i = i, !.j = 0,
              !.proc = [k \in 1..BatchLen(e.n, i, BATCH_SIZE)
                          |-> ProcStart(MAX_RETRIES)]]

\* Test of the batch loop: for (let i = 0; i < rows.length; i += BATCH_SIZE)
BatchLoop(e, i) ==
    IF i < e.n THEN StartBatch(e, i)
    ELSE [e EXCEPT !.pc = "complete", !.i = i, !.j = 0, !.proc = << >>]

\* The dispatch layer hands a waiting unit of work to a worker process that
\* is not executing one (concurrency: 1). The processes are interchangeable:
\* of the free ones the first takes the unit.
Pickup(w) ==
    /\ Exec(w).pc = "idle"
    /\ \A v \in Workers : Before(v, w) => Exec(v).pc # "idle"
    /\ queue > 0
    /\ queue' = queue - 1
    /\ deliveries' = deliveries + 1
    /\ wk' = [wk EXCEPT ![w] = [IdleWorker EXCEPT !.pc = "find"]]
    /\ UNCHANGED <<config, uploadVars, libVars, bulkPayrollJob, bulkPayrollRow, settled, cancel>>

\* prisma.bulkPayrollJob.findUnique({ include: { rows: true } })
FindJob(w) ==
    /\ Exec(w).pc = "find"
    /\ JobExists
    /\ wk' = [wk EXCEPT ![w] = [@ EXCEPT !.pc = "setProcessing",
                                         !.n = Len(bulkPayrollRow)]]
    /\ UNCHANGED <<config, uploadVars, libVars, bulkPayrollJob, bulkPayrollRow, queue, deliveries,
                   settled, cancel>>

\* The update that follows the load also clears the count of invalid rows.
ProcessingWriteClearsInvalid(job) ==
    [job EXCEPT !.status = "PROCESSING", !.startedAt = TRUE, !.invalidRows = 0]

\* The status written by the update that follows the load.
ProcessingWrite(job) == [job EXCEPT !.status = "PROCESSING", !.startedAt = TRUE]

\* update({ status: 'PROCESSING', startedAt }) and entry of the batch loop.
SetProcessing(w) ==
    /\ Exec(w).pc = "setProcessing"
    /\ bulkPayrollJob' = << ProcessingWrite(Job) >>
    /\ wk' = [wk EXCEPT ![w] =
                [BatchLoop(@, 0) EXCEPT !.processedCount = 0,
                                        !.successCount = 0,
                                        !.failedCount = 0]]
    /\ UNCHANGED <<config, uploadVars, libVars, bulkPayrollRow, queue, deliveries, settled, cancel>>

\* One createPayment call of the row at position k of the current batch.
Attempt(w, k, outcome) ==
    /\ Exec(w).pc = "rows"
    /\ k \in DOMAIN Exec(w).proc
    /\ Exec(w).proc[k].pc = "call"
    /\ wk' = [wk EXCEPT ![w].proc[k] = ProcAttempt(@, outcome, MAX_RETRIES)]
    /\ UNCHANGED <<config, uploadVars, libVars, bulkPayrollJob, bulkPayrollRow, queue, deliveries,
                   settled, cancel>>

\* Promise.allSettled(batchPromises): every promise of the batch is
\* fulfilled or rejected.
AllSettled(e) == \A k \in DOMAIN e.proc : e.proc[k].pc \in {"done", "rejected"}

\* The update leaves the status of the row as it is.
RowWriteKeepsStatus(row, res) ==
    [row EXCEPT !.providerResponse = IF res.providerResponse = NULL
                                     THEN @ ELSE res.providerResponse,
                !.errorMessage = IF res.errorMessage = NULL
                                 THEN @ ELSE res.errorMessage,
                !.attempts = res.attempts]

\* prisma.bulkPayrollRow.update of one fulfilled result; a field whose value
\* is undefined is left as it is.
RowWrite(row, res) ==
    [row EXCEPT !.status = IF res.success THEN "SUCCESS" ELSE "FAILED",
                !.providerResponse = IF res.providerResponse = NULL
                                     THEN @ ELSE res.providerResponse,
                !.errorMessage = IF res.errorMessage = NULL
                                 THEN @ ELSE res.errorMessage,
                !.attempts = res.attempts]

\* prisma.bulkPayrollRow.update of one rejected result: the message of the
\* reason, and MAX_RETRIES as the attempts.
RowWriteRejected(row, res, maxRetries) ==
    [row EXCEPT !.status = "FAILED",
                !.errorMessage = res.lastError,
                !.attempts = maxRetries]

\* processedCount++ is part of the success branch.
CountedInSuccessBranch(e, res) ==
    [e EXCEPT !.processedCount = IF res.success THEN @ + 1 ELSE @,
              !.successCount = IF res.success THEN @ + 1 ELSE @,
              !.failedCount = IF res.success THEN @ ELSE @ + 1]

\* The local counters after one result: successCount++ or failedCount++,
\* then processedCount++.
Counted(e, res) ==
    [e EXCEPT !.processedCount = @ + 1,
              !.successCount = IF res.success THEN @ + 1 ELSE @,
              !.failedCount = IF res.success THEN @ ELSE @ + 1]

\* Body of the loop over results: one row update, then the local counters;
\* after the last result of the batch the execution turns to the job update.
PersistRow(w) ==
    LET e   == Exec(w)
        res == e.proc[e.j + 1]
        idx == e.i + e.j + 1
    IN  /\ e.pc = "rows"
        /\ AllSettled(e)
        /\ e.j < Len(e.proc)
        /\ bulkPayrollRow' =
             [bulkPayrollRow EXCEPT ![idx] =
                IF res.pc = "rejected"
                THEN RowWriteRejected(@, res, MAX_RETRIES)
                ELSE RowWrite(@, res)]
        /\ wk' = [wk EXCEPT ![w] =
             [Counted(@, res) EXCEPT
                       !.j = e.j + 1,
                       !.pc = IF e.j + 1 = Len(e.proc) THEN "progress"
                              ELSE "rows"]]
        /\ UNCHANGED <<config, uploadVars, libVars, bulkPayrollJob, queue, deliveries, settled, cancel>>

\* The progress update computes the count from the batch offset instead of
\* taking the counter.
ProgressWriteByOffset(job, e) ==
    [job EXCEPT !.processedRows = e.i + BATCH_SIZE,
                !.failedRows = e.failedCount]

\* update({ processedRows, failedRows }) after a batch.
ProgressWrite(job, e) ==
    [job EXCEPT !.processedRows = e.processedCount,
                !.failedRows = e.failedCount]

UpdateProgress(w) ==
    /\ Exec(w).pc = "progress"
    /\ bulkPayrollJob' = << ProgressWrite(Job, Exec(w)) >>
    /\ wk' = [wk EXCEPT ![w] = BatchLoop(@, @.i + BATCH_SIZE)]
    /\ UNCHANGED <<config, uploadVars, libVars, bulkPayrollRow, queue, deliveries, settled, cancel>>

\* The final update writes the success counter as failedRows.
CompletedWriteSuccessCount(job, e) ==
    [job EXCEPT !.status = "COMPLETED", !.completedAt = TRUE,
                !.processedRows = e.processedCount,
                !.failedRows = e.successCount]

\* update({ status: 'COMPLETED', completedAt, processedRows, failedRows })
CompletedWrite(job, e) ==
    [job EXCEPT !.status = "COMPLETED", !.completedAt = TRUE,
                !.processedRows = e.processedCount,
                !.failedRows = e.failedCount]

\* Errors a rejected repository call raises: in the try block, and in the
\* catch block.
TryError == "error of the try block"
CatchBlockError == "error of the catch block"

Complete(w) ==
    /\ Exec(w).pc = "complete"
    /\ bulkPayrollJob' = << CompletedWrite(Job, Exec(w)) >>
    /\ wk' = [wk EXCEPT ![w] = IdleWorker]
    /\ settled' = "completed"
    /\ UNCHANGED <<config, uploadVars, libVars, bulkPayrollRow, queue, deliveries, cancel>>

\* Positions at which the execution awaits a repository call of the try block.
RepositoryCalls == {"find", "setProcessing", "progress", "complete"}

AwaitsRepository(e) ==
    \/ e.pc \in RepositoryCalls
    \/ e.pc = "rows" /\ AllSettled(e) /\ e.j < Len(e.proc)

\* A repository call of the try block rejects: control enters the catch
\* block with the error of that call.
RepositoryError(w) ==
    /\ AwaitsRepository(Exec(w))
    /\ wk' = [wk EXCEPT ![w] = [IdleWorker EXCEPT !.error = TryError, !.pc = "catch"]]
    /\ UNCHANGED <<config, uploadVars, libVars, bulkPayrollJob, bulkPayrollRow, queue, deliveries,
                   settled, cancel>>

\* The update of the catch block without the completedAt stamp.
FailedWriteNoStamp(job) == [job EXCEPT !.status = "FAILED"]

\* update({ status: 'FAILED', completedAt }) of the catch block.
FailedWrite(job) == [job EXCEPT !.status = "FAILED", !.completedAt = TRUE]

\* Catch block: the update, then throw error.
Catch(w) ==
    /\ Exec(w).pc = "catch"
    /\ bulkPayrollJob' = << FailedWrite(Job) >>
    /\ wk' = [wk EXCEPT ![w] = IdleWorker]
    /\ settled' = Exec(w).error
    /\ UNCHANGED <<config, uploadVars, libVars, bulkPayrollRow, queue, deliveries, cancel>>

\* The update of the catch block rejects: its error leaves the processor
\* instead of the caught one, and nothing is written.
CatchError(w) ==
    /\ Exec(w).pc = "catch"
    /\ wk' = [wk EXCEPT ![w] = IdleWorker]
    /\ settled' = CatchBlockError
    /\ UNCHANGED <<config, uploadVars, libVars, bulkPayrollJob, bulkPayrollRow, queue, deliveries,
                   cancel>>

\* The worker process dies while it executes the unit; the queue finds the
\* unit stalled and makes it wait again (at-least-once delivery).
Stalled(w) ==
    /\ Exec(w).pc # "idle"
    /\ deliveries <= MaxStalledCount
    /\ queue' = queue + 1
    /\ wk' = [wk EXCEPT ![w] = IdleWorker]
    /\ UNCHANGED <<config, uploadVars, libVars, bulkPayrollJob, bulkPayrollRow, deliveries, settled,
                   cancel>>

(* ---------------------------------------------------------------------- *)
(* Cancel route: POST /api/bulk-payroll/jobs/:id/cancel                    *)
(* ---------------------------------------------------------------------- *)
Respond(r, code) == [r EXCEPT !.pc = "done", !.response = code]

\* The route accepts QUEUED jobs only.
CancellableOnlyQueued(status) == status = "QUEUED"

\* The statuses the route accepts: ['QUEUED', 'PROCESSING'].includes(status)
Cancellable(status) == status \in {"QUEUED", "PROCESSING"}

\* The job is absent or not the caller's: NotFoundError, answered 404; the
\* route has touched nothing.
CancelNotFound(user) ==
    /\ IF JobExists THEN Job.uploaderId # user ELSE TRUE
    /\ UNCHANGED vars

\* Authentication, findUnique and the checks that follow it, for a job
\* that exists and belongs to the caller.
CancelFind(c, user) ==
    /\ cancel[c].pc = "idle"
    /\ c > 1 => cancel[c - 1].pc # "idle"
    /\ JobExists /\ Job.uploaderId = user
    /\ LET r == cancel[c]
       IN  cancel' = [cancel EXCEPT ![c] =
             IF ~Cancellable(Job.status) THEN Respond(r, 409)
             ELSE IF Job.status = "QUEUED" /\ REDIS_URL
                  THEN [r EXCEPT !.read = Job.status, !.pc = "remove"]
             ELSE [r EXCEPT !.read = Job.status, !.pc = "update"]]
    /\ UNCHANGED <<config, uploadVars, libVars, bulkPayrollJob, bulkPayrollRow, queue, deliveries,
                   wk, settled>>

\* queue.getJobs and the removal of the units of this job; a unit a worker
\* is executing keeps running.
CancelRemove(c) ==
    /\ cancel[c].pc = "remove"
    /\ queue' = 0
    /\ cancel' = [cancel EXCEPT ![c].pc = "update"]
    /\ UNCHANGED <<config, uploadVars, libVars, bulkPayrollJob, bulkPayrollRow, deliveries, wk,
                   settled>>

\* The cancel update also resets the counters.
CancelWriteResetsCounters(job) ==
    [job EXCEPT !.status = "CANCELLED", !.processedRows = 0, !.failedRows = 0]

\* update({ data: { status: 'CANCELLED' } })
CancelWrite(job) == [job EXCEPT !.status = "CANCELLED"]

CancelUpdate(c) ==
    /\ cancel[c].pc = "update"
    /\ bulkPayrollJob' = << CancelWrite(Job) >>
    /\ cancel' = [cancel EXCEPT ![c] = Respond(@, 200)]
    /\ UNCHANGED <<config, uploadVars, libVars, bulkPayrollRow, queue, deliveries, wk, settled>>

(* ---------------------------------------------------------------------- *)
(* Job detail route: GET /api/bulk-payroll/jobs/:id                        *)
(* ---------------------------------------------------------------------- *)
\* The body of the 200 response: the job fields and the row summaries in
\* rowIndex order, read by one findUnique.
JobDetail ==
    [status |-> Job.status,
     totalRows |-> Job.totalRows,
     validRows |-> Job.validRows,
     invalidRows |-> Job.invalidRows,
     processedRows |-> Job.processedRows,
     failedRows |-> Job.failedRows,
     startedAt |-> Job.startedAt,
     completedAt |-> Job.completedAt,
     rows |-> [k \in DOMAIN bulkPayrollRow |->
                 [rowIndex |-> bulkPayrollRow[k].rowIndex,
                  status |-> bulkPayrollRow[k].status,
                  attempts |-> bulkPayrollRow[k].attempts,
                  errorMessage |-> bulkPayrollRow[k].errorMessage,
                  providerResponse |-> bulkPayrollRow[k].providerResponse]]]

\* A read of the job detail: 404 for an absent job or another user's job,
\* JobDetail otherwise; the store is left as it is.
GetJob(user) == UNCHANGED vars

(* ---------------------------------------------------------------------- *)
(* Specification                                                           *)
(* ---------------------------------------------------------------------- *)
Next ==
    \/ \E total \in 1..MaxRows, valid \in 0..MaxRows : Upload(total, valid)
    \/ \E w \in Workers : Pickup(w)
    \/ \E w \in Workers : FindJob(w)
    \/ \E w \in Workers : SetProcessing(w)
    \/ \E w \in Workers, k \in 1..MaxBatchSize, o \in Outcomes : Attempt(w, k, o)
    \/ \E w \in Workers : PersistRow(w)
    \/ \E w \in Workers : UpdateProgress(w)
    \/ \E w \in Workers : Complete(w)
    \/ \E w \in Workers : RepositoryError(w)
    \/ \E w \in Workers : Catch(w)
    \/ \E w \in Workers : CatchError(w)
    \/ \E w \in Workers : Stalled(w)
    \/ \E u \in Users : GetJob(u)
    \/ \E u \in Users : CancelNotFound(u)
    \/ \E c \in Cancels, u \in Users : CancelFind(c, u)
    \/ \E c \in Cancels : CancelRemove(c)
    \/ \E c \in Cancels : CancelUpdate(c)

Spec == Init /\ [][Next]_vars

(* ---------------------------------------------------------------------- *)
(* Steps and counts the properties speak about                             *)
(* ---------------------------------------------------------------------- *)
RowIds == DOMAIN bulkPayrollRow

RowsWithStatus(statuses) ==
    Cardinality({k \in RowIds : bulkPayrollRow[k].status \in statuses})

\* Row summaries of a job detail with one of the given statuses.
DetailRowsWithStatus(detail, statuses) ==
    Cardinality({k \in DOMAIN detail.rows : detail.rows[k].status \in statuses})

\* Positions of an execution between its PROCESSING write and its final
\* COMPLETED or FAILED write.
Processing == {"rows", "progress", "complete", "catch"}

\* The request c passes from its read to its response or to its next call.
CancelReads(c) == cancel[c].pc = "idle" /\ cancel'[c].pc # "idle"

\* Some cancel request takes a step.
CancelStep == cancel' # cancel

\* The execution of w leaves the catch block (the process did not die).
LeavesCatch(w) == wk[w].pc = "catch" /\ wk'[w].pc = "idle" /\ queue' = queue

\* The execution of w returns from the processor.
Returns(w) == wk[w].pc = "complete" /\ wk'[w].pc = "idle" /\ queue' = queue

\* The execution of w persists the result of one row.
Persists(w) == wk[w].pc = "rows" /\ wk'[w].j = wk[w].j + 1

\* The execution of w writes the job at the end of a batch or of the loop.
WritesCounters(w) ==
    /\ wk[w].pc \in {"progress", "complete"}
    /\ wk'[w] # wk[w]
    /\ bulkPayrollJob' # bulkPayrollJob

\* Rows the execution of w has persisted so far.
PersistedBy(w) == Min(wk[w].i + wk[w].j, wk[w].n)

\* The text of the error of a failed createPayment call.
ErrorText(call) ==
    IF call.kind = "throw" /\ call.error = NonError THEN "Unknown error"
    ELSE call.error

(* ---------------------------------------------------------------------- *)
(* Job status                                                              *)
(* ---------------------------------------------------------------------- *)

\* C1: once the persisted status of the job is COMPLETED, FAILED or
\* CANCELLED, no step of a worker or of the cancel route changes it.
C1_TerminalStatusIsFinal ==
    [][(JobExists /\ Job.status \in TerminalJob)
         => bulkPayrollJob'[1].status = Job.status]_vars

C4_CompletedJobCountsEveryRow ==
    [][/\ \A w \in Workers : Returns(w) =>
            /\ bulkPayrollJob'[1].status = "COMPLETED"
            /\ bulkPayrollJob'[1].completedAt
            /\ settled' = "completed"
       /\ settled' = "completed" =>
            /\ bulkPayrollJob'[1].completedAt
            /\ bulkPayrollJob'[1].processedRows = Len(bulkPayrollRow')
            /\ bulkPayrollJob'[1].processedRows = bulkPayrollJob'[1].validRows
            /\ bulkPayrollJob'[1].failedRows =
                 Cardinality({k \in DOMAIN bulkPayrollRow' :
                                bulkPayrollRow'[k].status = "FAILED"})
            /\ \A k \in DOMAIN bulkPayrollRow' :
                 bulkPayrollRow'[k].status # "PENDING"]_vars

\* An execution over two rows in two batches has returned; one row failed
\* and one succeeded.
C4_Witness ==
    /\ settled = "completed"
    /\ Job.status = "COMPLETED"
    /\ BATCH_SIZE = 1
    /\ Len(bulkPayrollRow) = 2
    /\ Job.processedRows = 2
    /\ Job.failedRows = 1

\* C5: a row all of whose createPayment calls failed (by a reported failure
\* or by a thrown exception) is persisted as FAILED with attempts =
\* MAX_RETRIES and errorMessage = the text of the last error, createPayment
\* was called MAX_RETRIES times for it, and when the execution returns the
\* job is COMPLETED with failedRows >= 1.
C5_ExhaustedRowFails ==
    [][\A w \in Workers :
         /\ Persists(w) =>
              LET res == wk[w].proc[wk[w].j + 1]
                  row == bulkPayrollRow'[wk[w].i + wk[w].j + 1]
              IN  (res.calls >= 1 /\ res.last.kind # "success") =>
                    /\ row.status = "FAILED"
                    /\ row.attempts = MAX_RETRIES
                    /\ row.errorMessage = ErrorText(res.last)
                    /\ res.calls = MAX_RETRIES
         /\ (Returns(w) /\ \E k \in RowIds : bulkPayrollRow[k].status = "FAILED")
              => /\ bulkPayrollJob'[1].status = "COMPLETED"
                 /\ bulkPayrollJob'[1].failedRows >= 1]_vars

\* The job is COMPLETED although a row failed on each of its two calls, the
\* last of which threw.
C5_Witness ==
    /\ settled = "completed"
    /\ Job.status = "COMPLETED"
    /\ Job.failedRows >= 1
    /\ MAX_RETRIES = 2
    /\ \E k \in RowIds :
         /\ bulkPayrollRow[k].status = "FAILED"
         /\ bulkPayrollRow[k].attempts = 2
         /\ bulkPayrollRow[k].errorMessage = "Unknown error"

\* The counts at which a counter of an execution over n rows with batches
\* of size b is written.
BatchBoundaries(n, b) == {0, n} \cup {m \in 0..n : m % b = 0}

\* C6 as stated: a reader of the job detail sees processedRows at 0, a
\* multiple of BATCH_SIZE or N, and equal to the number of rows whose status
\* is SUCCESS or FAILED.
C6_ReadersSeeNoMidBatchState ==
    JobExists =>
        /\ JobDetail.processedRows
             \in BatchBoundaries(JobDetail.validRows, BATCH_SIZE)
        /\ JobDetail.processedRows = DetailRowsWithStatus(JobDetail, TerminalRow)

\* C6 as amended: a reader of the job detail sees processedRows at 0, a
\* multiple of BATCH_SIZE or N, and never above the number of rows whose
\* status is SUCCESS or FAILED.
C6_CounterAtBatchBoundary ==
    JobExists =>
        /\ JobDetail.processedRows
             \in BatchBoundaries(JobDetail.validRows, BATCH_SIZE)
        /\ JobDetail.processedRows <= DetailRowsWithStatus(JobDetail, TerminalRow)

\* A reader sees the second row of the first batch persisted while the
\* counter still stands at 0.
C6_Witness ==
    /\ JobExists
    /\ BATCH_SIZE = 2
    /\ Job.status = "PROCESSING"
    /\ JobDetail.processedRows = 0
    /\ DetailRowsWithStatus(JobDetail, TerminalRow) = 2

\* C7: a row whose status is SUCCESS or FAILED is not processed again: no
\* createPayment call is made for it and its record is not rewritten.
C7_TerminalRowNotReprocessed ==
    [][/\ \A k \in RowIds :
            bulkPayrollRow[k].status \in TerminalRow
              => bulkPayrollRow'[k] = bulkPayrollRow[k]
       /\ \A w \in Workers, o \in Outcomes :
            \A k \in DOMAIN wk[w].proc :
              Attempt(w, k, o)
                => bulkPayrollRow[wk[w].i + k].status = "PENDING"]_vars

C10_CancelKeepsCounters ==
    [][/\ CancelStep =>
            /\ bulkPayrollJob'[1].processedRows = Job.processedRows
            /\ bulkPayrollJob'[1].failedRows = Job.failedRows
            /\ bulkPayrollRow' = bulkPayrollRow
       /\ \A w \in Workers :
            WritesCounters(w) =>
               /\ bulkPayrollJob'[1].processedRows = PersistedBy(w)
               /\ bulkPayrollJob'[1].failedRows =
                    Cardinality({k \in 1..PersistedBy(w) :
                                   bulkPayrollRow[k].status = "FAILED"})]_vars

\* A cancel request read the job as PROCESSING and was accepted, and the
\* execution has written the counters of its two rows since.
C10_Witness ==
    /\ \E c \in Cancels :
         cancel[c].response = 200 /\ cancel[c].read = "PROCESSING"
    /\ settled = "completed"
    /\ Job.processedRows = 2
    /\ Job.failedRows = 1

(* ---------------------------------------------------------------------- *)
(* Counts written at upload                                                *)
(* ---------------------------------------------------------------------- *)

\* C11: the totalRows, validRows and invalidRows of a job keep the values
\* the upload wrote: no write of an execution (PROCESSING, progress,
\* COMPLETED, FAILED) and no cancel request changes them.
C11_UploadCountsNeverChange ==
    [][JobExists =>
         /\ bulkPayrollJob'[1].totalRows = Job.totalRows
         /\ bulkPayrollJob'[1].validRows = Job.validRows
         /\ bulkPayrollJob'[1].invalidRows = Job.invalidRows]_vars

\* A job uploaded with one valid and one invalid row has been written by an
\* execution up to its COMPLETED write and by an accepted cancel request.
C11_Witness ==
    /\ JobExists
    /\ Job.totalRows = 2 /\ Job.validRows = 1 /\ Job.invalidRows = 1
    /\ Job.processedRows = 1
    /\ Job.completedAt
    /\ Job.status = "CANCELLED"

(* ---------------------------------------------------------------------- *)
(* Retry limit                                                             *)
(* ---------------------------------------------------------------------- *)

\* One worker process executing the job once, configured with any
\* MAX_RETRIES from 0 to one above the default stored in a row.
InitRetries ==
    /\ BATCH_SIZE \in 1..MaxBatchSize
    /\ MAX_RETRIES \in 0..(DefaultMaxRetries + 1)
    /\ REDIS_URL = TRUE
    /\ bulkPayrollJob = << >>
    /\ bulkPayrollRow = << >>
    /\ queue = 0
    /\ deliveries = 0
    /\ wk = [w \in Workers |-> IdleWorker]
    /\ settled = NULL
    /\ cancel = [c \in Cancels |-> NewCancel]
    /\ UploadIdle
    /\ LibIdle

NextRetries ==
    \/ \E total \in 1..MaxRows, valid \in 0..MaxRows : Upload(total, valid)
    \/ \E w \in Workers : Pickup(w)
    \/ \E w \in Workers : FindJob(w)
    \/ \E w \in Workers : SetProcessing(w)
    \/ \E w \in Workers, k \in 1..MaxBatchSize, o \in Outcomes : Attempt(w, k, o)
    \/ \E w \in Workers : PersistRow(w)
    \/ \E w \in Workers : UpdateProgress(w)
    \/ \E w \in Workers : Complete(w)

SpecRetries == InitRetries /\ [][NextRetries]_vars

\* C12: the persisted attempts of a row never exceed the maxRetries stored
\* in that row, and within one execution createPayment is called for a row
\* at most that many times, for every configured MAX_RETRIES (0 and values
\* above the stored default included).
C12_AttemptsAtMostMaxRetries ==
    /\ \A k \in RowIds :
         bulkPayrollRow[k].attempts <= bulkPayrollRow[k].maxRetries
    /\ \A w \in Workers : \A k \in DOMAIN wk[w].proc :
         wk[w].proc[k].calls <= bulkPayrollRow[wk[w].i + k].maxRetries

(* ---------------------------------------------------------------------- *)
(* Termination                                                             *)
(* ---------------------------------------------------------------------- *)

\* A step of the execution of w: the continuation of the processor after
\* the call it awaits has resolved or rejected.
WorkerStep(w) ==
    \/ FindJob(w)
    \/ SetProcessing(w)
    \/ \E k \in 1..MaxBatchSize, o \in Outcomes : Attempt(w, k, o)
    \/ PersistRow(w)
    \/ UpdateProgress(w)
    \/ Complete(w)
    \/ RepositoryError(w)
    \/ Catch(w)
    \/ CatchError(w)

\* The worker process stays alive: every step but Stalled.
NextLive ==
    \/ \E total \in 1..MaxRows, valid \in 0..MaxRows : Upload(total, valid)
    \/ \E w \in Workers : Pickup(w)
    \/ \E w \in Workers : FindJob(w)
    \/ \E w \in Workers : SetProcessing(w)
    \/ \E w \in Workers, k \in 1..MaxBatchSize, o \in Outcomes : Attempt(w, k, o)
    \/ \E w \in Workers : PersistRow(w)
    \/ \E w \in Workers : UpdateProgress(w)
    \/ \E w \in Workers : Complete(w)
    \/ \E w \in Workers : RepositoryError(w)
    \/ \E w \in Workers : Catch(w)
    \/ \E w \in Workers : CatchError(w)
    \/ \E u \in Users : GetJob(u)
    \/ \E u \in Users : CancelNotFound(u)
    \/ \E c \in Cancels, u \in Users : CancelFind(c, u)
    \/ \E c \in Cancels : CancelRemove(c)
    \/ \E c \in Cancels : CancelUpdate(c)

\* Every call the processor awaits (adapter, repository) resolves or
\* rejects, and the event loop then runs the continuation.
Fairness == \A w \in Workers : WF_vars(WorkerStep(w))

SpecLive == Init /\ [][NextLive]_vars /\ Fairness

PickedUp == \E w \in Workers : wk[w].pc # "idle"

ReachedTerminal == JobExists /\ Job.status \in {"COMPLETED", "FAILED"}

Fields == <<"employee_id", "employee_email", "amount", "currency", "pay_date",
            "description", "external_reference">>
FieldSet == {Fields[k] : k \in DOMAIN Fields}

Undefined == "undefined"    \* a property the object does not have

\* A raw row is a JavaScript object with string values: the sequence of its
\* <<key, value>> pairs in insertion order, no key twice.
Keys(row) == [k \in DOMAIN row |-> row[k][1]]

Get(row, key) ==
    IF \E k \in DOMAIN row : row[k][1] = key
    THEN row[CHOOSE k \in DOMAIN row : row[k][1] = key][2]
    ELSE Undefined

\* The strings below are the cell values of the rows the specifications
\* draw; each string function is given by its values on them.

\* isNaN(Number(val))
IsNaN(val) ==
    val \notin {"1500.00", "1500", "0", "", "1000000.00", "1000000.01", "-5",
                "100.999", "100.99", "100.990", "0.01"}

\* Number(val) where it is a number, counted in thousandths; the empty
\* string converts to 0.
ToNumber(val) ==
    CASE val \in {"1500.00", "1500"} -> 1500000
      [] val \in {"0", ""} -> 0
      [] val = "1000000.00" -> 1000000000
      [] val = "1000000.01" -> 1000000010
      [] val = "-5" -> -5000
      [] val = "100.999" -> 100999
      [] val \in {"100.99", "100.990"} -> 100990
      [] val = "0.01" -> 10

\* val.trim()
Trim(val) == IF val = " usd " THEN "usd" ELSE val

\* val.toUpperCase()
ToUpperCase(val) ==
    CASE val = "usd" -> "USD"
      [] val = "eur" -> "EUR"
      [] val = "abc" -> "ABC"
      [] val = "bad-email" -> "BAD-EMAIL"
      [] val = "a@x.com" -> "A@X.COM"
      [] val = "b@x.com" -> "B@X.COM"
      [] val = "ab" -> "AB"
      [] OTHER -> val

\* /^[A-Za-z0-9_-]{3,64}$|^$/
MatchesEmployeeId(val) == val \in {"", "EMP001", "EMP002"}

\* z.string().email(): the empty string is not an email address.
IsEmail(val) == val \in {"a@x.com", "b@x.com"}

\* val.length === 3
HasLength3(val) == val \in {"USD", "EUR", "ZZZ", "usd", "eur", "ABC", "abc"}

ISO4217_CURRENCIES ==
    {"USD", "EUR", "GBP", "JPY", "CAD", "AUD", "CHF", "CNY",
     "SEK", "NZD", "MXN", "SGD", "HKD", "NOK", "KRW", "TRY",
     "RUB", "INR", "BRL", "ZAR", "AED", "SAR", "QAR", "KWD",
     "BHD", "OMR", "JOD", "ILS", "BGN", "HRK", "CZK", "DKK",
     "HUF", "PLN", "RON", "IDR", "MYR", "PHP", "THB",
     "VND", "PKR", "BDT", "LKR", "MMK", "KHR", "LAK"}

\* Dates are written relative to the day of the upload; "<today+1>" is the
\* YYYY-MM-DD string of tomorrow.
DayOffset(val) ==
    CASE val = "<today+1>" -> 1
      [] val = "<today+2>" -> 2
      [] val = "<today-31>" -> -31
      [] val = "<today-30>" -> -30
      [] val = "<today+365>" -> 365
      [] val = "<today+366>" -> 366

\* /^\d{4}-\d{2}-\d{2}$/
MatchesDatePattern(val) ==
    val \in {"<today+1>", "<today+2>", "<today-31>", "<today-30>",
             "<today+365>", "<today+366>"}

MinutesPerDay == 1440

\* Instants are counted in minutes from 00:00 UTC of the calendar day that
\* is today in local time. new Date(val) of a YYYY-MM-DD string is 00:00 UTC
\* of that day.
DateOf(val) == DayOffset(val) * MinutesPerDay

\* today.setHours(0, 0, 0, 0): 00:00 local time of today.
LocalMidnightToday == 0 - TZ

\* date >= minDate && date <= maxDate, minDate and maxDate being the local
\* midnights 30 days before and 365 days after today; false for a string
\* that is no date.
InDateWindow(val) ==
    IF MatchesDatePattern(val)
    THEN /\ DateOf(val) >= LocalMidnightToday - 30 * MinutesPerDay
         /\ DateOf(val) <= LocalMidnightToday + 365 * MinutesPerDay
    ELSE FALSE

Issue(field, message) == [field |-> field, message |-> message]

OneIf(cond, issue) == IF cond THEN << issue >> ELSE << >>

\* Issues of RawPaymentRowSchema for the mapped row m (a function from some
\* of the fields to strings).
RawIssues(m) ==
    (IF "amount" \notin DOMAIN m THEN << Issue("amount", "Invalid input") >>
     ELSE OneIf(IsNaN(m["amount"]),
                Issue("amount", "amount must be a valid number")))
    \o OneIf("currency" \notin DOMAIN m, Issue("currency", "Required"))
    \o OneIf("pay_date" \notin DOMAIN m, Issue("pay_date", "Required"))

OrEmpty(m, field) == IF field \in DOMAIN m THEN m[field] ELSE ""

\* Output of RawPaymentRowSchema: defaults and transforms applied.
RawData(m) ==
    [employee_id |-> OrEmpty(m, "employee_id"),
     employee_email |-> OrEmpty(m, "employee_email"),
     amount |-> ToNumber(m["amount"]),
     currency |-> ToUpperCase(Trim(m["currency"])),
     pay_date |-> Trim(m["pay_date"]),
     description |-> OrEmpty(m, "description"),
     external_reference |-> OrEmpty(m, "external_reference")]

\* The test accepts three decimal places.
AtMostThreeDecimals(amount) == amount >= 0

\* /^\d+(\.\d{1,2})?$/.test(val.toString()) for a number in thousandths.
AtMostTwoDecimals(amount) == amount >= 0 /\ amount % 10 = 0

\* Issues of PaymentRowSchema for the output d of the raw schema, in the
\* order of the keys, the cross-field refinement last. No description of
\* the rows drawn is longer than 255 characters.
RowIssues(d) ==
    OneIf(~MatchesEmployeeId(d.employee_id), Issue("employee_id", "Invalid"))
    \o OneIf(~IsEmail(d.employee_email), Issue("employee_email", "Invalid email"))
    \o OneIf(~(d.amount > 0), Issue("amount", "Amount must be greater than 0"))
    \o OneIf(d.amount > 1000000 * 1000,
             Issue("amount", "Amount cannot exceed 1,000,000"))
    \o OneIf(~AtMostTwoDecimals(d.amount),
             Issue("amount", "Amount must have at most 2 decimal places"))
    \o OneIf(~HasLength3(d.currency),
             Issue("currency", "Currency code must be 3 characters"))
    \o OneIf(d.currency \notin ISO4217_CURRENCIES,
             Issue("currency", "Invalid ISO 4217 currency code"))
    \o OneIf(~MatchesDatePattern(d.pay_date),
             Issue("pay_date", "pay_date must be in YYYY-MM-DD format"))
    \o OneIf(~InDateWindow(d.pay_date),
             Issue("pay_date", "pay_date must be within the allowed window"))
    \o OneIf(d.employee_id = "" /\ d.employee_email = "",
             Issue(Undefined,
                   "At least one of employee_id or employee_email must be provided"))

\* RawPaymentRowSchema.safeParse(mappedRow): the second schema runs only on
\* an output of the first that raised no issue.
SafeParse(m) ==
    IF RawIssues(m) # << >>
    THEN [success |-> FALSE, data |-> NULL, issues |-> RawIssues(m)]
    ELSE IF RowIssues(RawData(m)) # << >>
    THEN [success |-> FALSE, data |-> NULL, issues |-> RowIssues(RawData(m))]
    ELSE [success |-> TRUE, data |-> RawData(m), issues |-> << >>]

(* ---------------------------------------------------------------------- *)
(* validatePayrollRows                                                     *)
(* ---------------------------------------------------------------------- *)
\* Map CSV columns to schema fields: a field is set when its column is
\* mapped (neither null nor empty) and the row has that column.
MappedRow(rawRow, mapping) ==
    [field \in {f \in DOMAIN mapping :
                  /\ mapping[f] \notin {NULL, ""}
                  /\ Get(rawRow, mapping[f]) # Undefined}
       |-> Get(rawRow, mapping[field])]

\* employee_id || employee_email
IdOrEmail(data) ==
    IF data.employee_id # "" THEN data.employee_id ELSE data.employee_email

\* The key is the employee identifier alone.
PaymentKeyEmployeeOnly(data) == <<IdOrEmail(data)>>

\* The duplicate key `${id || email}:${amount}:${pay_date}`. No component of
\* a row that passed the schema contains a colon, so the string determines
\* its three components.
PaymentKey(data) == <<IdOrEmail(data), data.amount, data.pay_date>>

NoRows ==
    [validRows |-> << >>, invalidRows |-> << >>, duplicates |-> << >>,
     seenPayments |-> << >>]

\* The loop body without the continue after a duplicate: the row is put in
\* duplicates and in validRows.
ValidateRowKeepsDuplicate(acc, rawRow, mapping, i) ==
    LET result == SafeParse(MappedRow(rawRow, mapping))
        key == PaymentKey(result.data)
    IN  IF ~result.success
        THEN [acc EXCEPT !.invalidRows =
                Append(@, [rowIndex |-> i, data |-> rawRow, errors |-> << >>])]
        ELSE IF key \in DOMAIN acc.seenPayments
        THEN [acc EXCEPT !.duplicates =
                Append(@, [rowIndex |-> i, data |-> rawRow,
                           duplicateOf |-> acc.seenPayments[key]]),
                         !.validRows = Append(@, result.data)]
        ELSE [acc EXCEPT !.seenPayments = (key :> i) @@ @,
                         !.validRows = Append(@, result.data)]

\* Body of the loop for the row at index i (0-based) with the lists and the
\* map as the iterations before have left them.
ValidateRow(acc, rawRow, mapping, i) ==
    LET result == SafeParse(MappedRow(rawRow, mapping))
        key == PaymentKey(result.data)
    IN  IF ~result.success
        THEN [acc EXCEPT !.invalidRows =
                Append(@, [rowIndex |-> i, data |-> rawRow,
                           errors |-> [k \in DOMAIN result.issues |->
                                         [rowIndex |-> i,
                                          field |-> result.issues[k].field,
                                          error |-> result.issues[k].message]]])]
        ELSE IF key \in DOMAIN acc.seenPayments
        THEN [acc EXCEPT !.duplicates =
                Append(@, [rowIndex |-> i, data |-> rawRow,
                           duplicateOf |-> acc.seenPayments[key]])]
        ELSE [acc EXCEPT !.seenPayments = (key :> i) @@ @,
                         !.validRows = Append(@, result.data)]

\* for (let i = 0; i < rows.length; i++): the state after the first n rows.
RECURSIVE ValidateUpTo(_, _, _)
ValidateUpTo(rows, mapping, n) ==
    IF n = 0 THEN NoRows
    ELSE ValidateRow(ValidateUpTo(rows, mapping, n - 1), rows[n], mapping, n - 1)

validatePayrollRows(rows, mapping) ==
    LET acc == ValidateUpTo(rows, mapping, Len(rows))
    IN  [headers |-> IF Len(rows) = 0 THEN << >> ELSE Keys(rows[1]),
         totalRows |-> Len(rows),
         validRows |-> acc.validRows,
         invalidRows |-> acc.invalidRows,
         duplicates |-> acc.duplicates]

(* ---------------------------------------------------------------------- *)
(* validatePayrollRows applied to drawn rows and mappings                  *)
(* ---------------------------------------------------------------------- *)
MaxValidateRows == 3    \* rows of a batch handed to validatePayrollRows

Row(id, email, amount, currency, date) ==
    (IF id = Undefined THEN << >> ELSE << <<"employee_id", id>> >>)
    \o (IF email = Undefined THEN << >> ELSE << <<"employee_email", email>> >>)
    \o << <<"amount", amount>>, <<"currency", currency>>, <<"pay_date", date>> >>

\* Rows with canonical column names: two texts of one payment, the same
\* payment under an employee id, another employee, another date, and rows
\* that fail the schema, one of which agrees with the first payment in
\* employee, amount and date.
RawRows ==
    { Row(Undefined, "a@x.com", "1500.00", "usd", "<today+1>"),
      Row(Undefined, "a@x.com", "1500", "USD", "<today+1>"),
      Row("EMP001", "a@x.com", "1500", "USD", "<today+1>"),
      Row("", "b@x.com", "1500.00", "eur", "<today+1>"),
      Row(Undefined, "a@x.com", "1500.00", "usd", "<today+2>"),
      Row(Undefined, "a@x.com", "1500.00", "ZZZ", "<today+1>"),
      Row(Undefined, "bad-email", "abc", "ZZZ", "<today+1>"),
      Row("EMP001", Undefined, "1500", "USD", "<today-31>") }

Batches(vocabulary, maxLen) ==
    UNION {[1..n -> vocabulary] : n \in 0..maxLen}

\* Mappings of every field to the column of its name, or to no column for
\* the fields in the given set.
MappingWithout(unmapped) ==
    [f \in FieldSet |-> IF f \in unmapped THEN NULL ELSE f]

Mappings ==
    {MappingWithout(u) : u \in SUBSET {"employee_id", "employee_email", "amount"}}
    \cup {[MappingWithout({}) EXCEPT !["employee_id"] = "external_reference",
                                     !["description"] = "employee_email"]}

InitValidate ==
    /\ parsedRows \in Batches(RawRows, MaxValidateRows)
    /\ columnMapping \in {<< m >> : m \in Mappings}
    /\ parsed = << >>
    /\ MAX_ROWS_PER_UPLOAD = DefaultMaxRowsPerUpload
    /\ TZ = 0
    /\ upload = NoUpload
    /\ LibIdle
    /\ BATCH_SIZE = 1 /\ MAX_RETRIES = 0 /\ REDIS_URL = FALSE
    /\ bulkPayrollJob = << >> /\ bulkPayrollRow = << >>
    /\ queue = 0 /\ deliveries = 0
    /\ wk = [w \in Workers |-> IdleWorker]
    /\ settled = NULL
    /\ cancel = [c \in Cancels |-> NewCancel]

\* The variables of the job store, the queue, the worker and the cancel route.
systemVars == <<config, bulkPayrollJob, bulkPayrollRow, queue, deliveries, wk,
                settled, cancel>>

\* A call of validatePayrollRows(parsedRows, columnMapping).
Validate ==
    /\ parsed = << >>
    /\ parsed' = << validatePayrollRows(parsedRows, columnMapping[1]) >>
    /\ UNCHANGED <<systemVars, libVars, MAX_ROWS_PER_UPLOAD, TZ, upload, parsedRows,
                   columnMapping>>

NextValidate == Validate

SpecValidate == InitValidate /\ [][NextValidate]_vars

\* The result of the call, and the row indices of its lists.
Parsed == parsed[1]
InvalidIndices == {Parsed.invalidRows[k].rowIndex : k \in DOMAIN Parsed.invalidRows}
DuplicateIndices == {Parsed.duplicates[k].rowIndex : k \in DOMAIN Parsed.duplicates}
InputIndices == 0..(Len(parsedRows) - 1)
ValidIndices == InputIndices \ (InvalidIndices \cup DuplicateIndices)

\* The schema result of the input row at index i under the mapping.
ParseOf(i) == SafeParse(MappedRow(parsedRows[i + 1], columnMapping[1]))

\* C14: the three lists of the result partition the input indices: the
\* sizes of validRows, invalidRows and duplicates add up to totalRows = n,
\* every rowIndex is an input index listed once, and no rowIndex is in
\* both invalidRows and duplicates.
C14_ValidationPartitionsInput ==
    Len(parsed) = 1 =>
        /\ Parsed.totalRows = Len(parsedRows)
        /\ Len(Parsed.validRows) + Len(Parsed.invalidRows)
             + Len(Parsed.duplicates) = Parsed.totalRows
        /\ InvalidIndices \cup DuplicateIndices \subseteq InputIndices
        /\ InvalidIndices \cap DuplicateIndices = {}
        /\ Cardinality(InvalidIndices) = Len(Parsed.invalidRows)
        /\ Cardinality(DuplicateIndices) = Len(Parsed.duplicates)
        /\ Cardinality(ValidIndices) = Len(Parsed.validRows)

\* A batch of three rows has been split into one valid row, one invalid
\* row and one duplicate.
C14_Witness ==
    /\ Len(parsed) = 1
    /\ Len(Parsed.validRows) = 1
    /\ Len(Parsed.invalidRows) = 1
    /\ Len(Parsed.duplicates) = 1

\* Two validated rows name the same employee (id, or else email), amount
\* and pay date.
SamePayment(d, e) ==
    /\ (IF d.employee_id = "" THEN d.employee_email ELSE d.employee_id)
         = (IF e.employee_id = "" THEN e.employee_email ELSE e.employee_id)
    /\ d.amount = e.amount
    /\ d.pay_date = e.pay_date

\* Earlier input rows that pass the schema with the payment of row i.
EarlierSame(i) ==
    {j \in 0..(i - 1) :
       ParseOf(j).success /\ SamePayment(ParseOf(j).data, ParseOf(i).data)}

Least(S) == CHOOSE m \in S : \A x \in S : m <= x

\* Position in validRows (1-based) of the input index j.
ValidPosition(j) == Cardinality({v \in ValidIndices : v <= j})

\* C15: a row that passes the schema is in duplicates exactly when an
\* earlier row that passes the schema has the same key; its duplicateOf is
\* the input index of the first such row, which is in validRows. A row that
\* fails the schema is in invalidRows and no duplicateOf points at it.
C15_FirstOccurrenceWins ==
    Len(parsed) = 1 =>
        \A i \in InputIndices :
            IF ParseOf(i).success
            THEN /\ i \notin InvalidIndices
                 /\ i \in DuplicateIndices <=> EarlierSame(i) # {}
                 /\ \A k \in DOMAIN Parsed.duplicates :
                      Parsed.duplicates[k].rowIndex = i =>
                        LET first == Parsed.duplicates[k].duplicateOf
                        IN  /\ first = Least(EarlierSame(i))
                            /\ first \in ValidIndices
                            /\ Parsed.validRows[ValidPosition(first)]
                                 = ParseOf(first).data
            ELSE /\ i \in InvalidIndices
                 /\ \A k \in DOMAIN Parsed.duplicates :
                      Parsed.duplicates[k].duplicateOf # i

\* A row that fails the schema is followed by a row of the same employee,
\* amount and date, which is valid, and by a second text of that payment,
\* which is a duplicate of the valid row at input index 1.
C15_Witness ==
    /\ Len(parsed) = 1
    /\ InvalidIndices = {0}
    /\ ValidIndices = {1}
    /\ \E k \in DOMAIN Parsed.duplicates :
         /\ Parsed.duplicates[k].rowIndex = 2
         /\ Parsed.duplicates[k].duplicateOf = 1
         /\ Parsed.duplicates[k].data # parsedRows[2]
    /\ Get(parsedRows[1], "amount") = Get(parsedRows[2], "amount")
    /\ Get(parsedRows[1], "employee_email") = Get(parsedRows[2], "employee_email")
    /\ Get(parsedRows[1], "pay_date") = Get(parsedRows[2], "pay_date")

(* ---------------------------------------------------------------------- *)
(* detectColumnMapping                                                     *)
(* ---------------------------------------------------------------------- *)
\* h.toLowerCase() on the headers the specifications draw; every other
\* header drawn is in lower case already.
HeaderToLowerCase(h) ==
    CASE h = "Amount" -> "amount"
      [] h = "Salary" -> "salary"
      [] h = "EMAIL" -> "email"
      [] h = "Email" -> "email"
      [] h = " Pay_Date " -> " pay_date "
      [] OTHER -> h

\* s.trim() on the lower-cased headers.
HeaderTrim(s) ==
    CASE s = " amount " -> "amount"
      [] s = " pay_date " -> "pay_date"
      [] OTHER -> s

\* headers.map((h) => h.toLowerCase().trim())
NormalizedHeaders(hs) == [k \in DOMAIN hs |-> HeaderTrim(HeaderToLowerCase(hs[k]))]

\* seq.indexOf(x), 1-based; 0 where JavaScript returns -1.
IndexOf(seq, x) ==
    IF \E k \in DOMAIN seq : seq[k] = x
    THEN CHOOSE k \in DOMAIN seq : seq[k] = x /\ \A j \in 1..(k - 1) : seq[j] # x
    ELSE 0

commonAliases ==
    [employee_id |-> <<"emp_id", "empid", "id", "employee id", "emp", "employee_code">>,
     employee_email |-> <<"email", "emp_email", "empemail", "employee email",
                          "recipient_email">>,
     amount |-> <<"salary", "payment", "pay_amount", "payroll_amount", "value">>,
     currency |-> <<"curr", "code", "currency_code", "iso_code">>,
     pay_date |-> <<"date", "paydate", "payment_date", "salary_date", "pay_period">>,
     description |-> <<"notes", "reason", "comment">>,
     external_reference |-> <<"reference", "ref", "external_ref", "ref_no",
                              "reference_id">>]

\* for (const alias of commonAliases[field]) from position a on: the header
\* of the first alias found, null when the list is exhausted.
RECURSIVE AliasMatch(_, _, _)
AliasMatch(hs, aliases, a) ==
    IF a > Len(aliases) THEN NULL
    ELSE IF IndexOf(NormalizedHeaders(hs), aliases[a]) # 0
         THEN hs[IndexOf(NormalizedHeaders(hs), aliases[a])]
         ELSE AliasMatch(hs, aliases, a + 1)

\* The aliases are tried before the direct match.
MapFieldAliasFirst(hs, field) ==
    IF AliasMatch(hs, commonAliases[field], 1) # NULL
    THEN AliasMatch(hs, commonAliases[field], 1)
    ELSE IF IndexOf(NormalizedHeaders(hs), field) # 0
         THEN hs[IndexOf(NormalizedHeaders(hs), field)]
         ELSE NULL

\* Body of the loop over the fields: the direct match, else the aliases.
MapField(hs, field) ==
    IF IndexOf(NormalizedHeaders(hs), field) # 0
    THEN hs[IndexOf(NormalizedHeaders(hs), field)]
    ELSE AliasMatch(hs, commonAliases[field], 1)

detectColumnMapping(hs) == [field \in FieldSet |-> MapField(hs, field)]

MaxHeaders == 3     \* headers handed to detectColumnMapping

\* Headers in several casings, padded, aliases of two ranks of one field,
\* aliases of other fields, and a header no field knows.
HeaderSamples ==
    {"amount", "Amount", " amount ", "salary", "Salary", "payment",
     "employee_email", "email", "EMAIL", "id", "code", "name"}

InitMapping ==
    /\ headers \in Batches(HeaderSamples, MaxHeaders)
    /\ columnMapping = << >>
    /\ parsedRows = << >>
    /\ parsed = << >>
    /\ MAX_ROWS_PER_UPLOAD = DefaultMaxRowsPerUpload
    /\ TZ = 0
    /\ upload = NoUpload
    /\ adapters = << >>
    /\ results = << >>
    /\ csv = NoCsv
    /\ BATCH_SIZE = 1 /\ MAX_RETRIES = 0 /\ REDIS_URL = FALSE
    /\ bulkPayrollJob = << >> /\ bulkPayrollRow = << >>
    /\ queue = 0 /\ deliveries = 0
    /\ wk = [w \in Workers |-> IdleWorker]
    /\ settled = NULL
    /\ cancel = [c \in Cancels |-> NewCancel]

\* A call of detectColumnMapping(headers).
Detect ==
    /\ columnMapping = << >>
    /\ columnMapping' = << detectColumnMapping(headers) >>
    /\ UNCHANGED <<systemVars, headers, adapters, results, csv,
                   MAX_ROWS_PER_UPLOAD, TZ,
                   upload, parsedRows, parsed>>

NextMapping == Detect

SpecMapping == InitMapping /\ [][NextMapping]_vars

\* The header a field is mapped to when a header matches a name if norm of
\* the header is that name: the first header matching the field name; else
\* the first header matching the first alias that any header matches; else
\* null.
ExpectedHeader(field, norm(_)) ==
    LET Matching(name) == {k \in DOMAIN headers : norm(headers[k]) = name}
        Found == {a \in DOMAIN commonAliases[field] :
                    Matching(commonAliases[field][a]) # {}}
    IN  IF Matching(field) # {} THEN headers[Least(Matching(field))]
        ELSE IF Found # {}
             THEN headers[Least(Matching(commonAliases[field][Least(Found)]))]
             ELSE NULL

\* Comparison of a header with a name ignoring case, and ignoring case and
\* surrounding white space.
IgnoringCase(h) == HeaderToLowerCase(h)
IgnoringCaseAndPadding(h) == HeaderTrim(HeaderToLowerCase(h))

\* C19 as stated: each field is mapped to the header that equals the field
\* name case-insensitively, else to the header that equals the first
\* matching alias case-insensitively, else to null; a non-null result is
\* one of the headers.
C19_ExactThenAliasIgnoringCase ==
    Len(columnMapping) = 1 =>
        \A field \in FieldSet :
            /\ columnMapping[1][field] = ExpectedHeader(field, IgnoringCase)
            /\ columnMapping[1][field] # NULL =>
                 \E k \in DOMAIN headers : headers[k] = columnMapping[1][field]

\* C19 as amended: the same with headers compared after lower-casing and
\* trimming surrounding white space.
C19_ExactThenAliasIgnoringCaseAndPadding ==
    Len(columnMapping) = 1 =>
        \A field \in FieldSet :
            /\ columnMapping[1][field] = ExpectedHeader(field, IgnoringCaseAndPadding)
            /\ columnMapping[1][field] # NULL =>
                 \E k \in DOMAIN headers : headers[k] = columnMapping[1][field]

\* Among headers that offer an alias of amount before its padded name, the
\* name has won, and employee_email is mapped through an alias in upper case.
C19_Witness ==
    /\ Len(columnMapping) = 1
    /\ headers = <<"salary", " amount ", "EMAIL">>
    /\ columnMapping[1]["amount"] = " amount "
    /\ columnMapping[1]["employee_email"] = "EMAIL"
    /\ columnMapping[1]["currency"] = NULL

(* ---------------------------------------------------------------------- *)
(* Upload route in detail: POST /api/bulk-payroll/upload                   *)
(* ---------------------------------------------------------------------- *)
SmallRowLimit == 2      \* a MAX_ROWS_PER_UPLOAD set below the default
MaxLongBatch == 11      \* rows of the longest batch uploaded

SummaryPerList == 10    \* invalidRows.slice(0, 10), duplicates.slice(0, 10)
SummaryLimit == 20      \* errorSummary.slice(0, 20)

\* seq.slice(0, n)
Slice(seq, n) == SubSeq(seq, 1, Min(n, Len(seq)))

\* JSON.stringify(value): the text that denotes the value.
Stringify(value) == [json |-> value]

\* errorSummary of the route: the first invalid rows with their messages
\* (in the code joined by '; '), then the first duplicates.
ErrorSummary(p) ==
    [k \in 1..Len(Slice(p.invalidRows, SummaryPerList)) |->
        [rowIndex |-> p.invalidRows[k].rowIndex,
         errors |-> [e \in DOMAIN p.invalidRows[k].errors |->
                       p.invalidRows[k].errors[e].error]]]
    \o [k \in 1..Len(Slice(p.duplicates, SummaryPerList)) |->
        [rowIndex |-> p.duplicates[k].rowIndex,
         error |-> <<"Duplicate of row", p.duplicates[k].duplicateOf>>]]

\* The rows are numbered from 1.
RowToCreateFromOne(rows, validRows, idx) ==
    NewRow(idx + 1) @@ [input |-> Stringify(rows[idx + 1]),
                        normalized |-> Stringify(validRows[idx + 1])]

\* One element of rowsToCreate, with the column defaults createMany adds:
\* validRows.map((row, idx) => ({ rowIndex: idx, input: parsedRows[idx], ... }))
RowToCreate(rows, validRows, idx) ==
    NewRow(idx) @@ [input |-> Stringify(rows[idx + 1]),
                    normalized |-> Stringify(validRows[idx + 1])]

\* The limit is taken one row too high.
TooManyRowsAboveNext(n, limit) == n > limit + 1

\* parsedRows.length > MAX_ROWS_PER_UPLOAD
TooManyRows(n, limit) == n > limit

\* formatError of an AppValidationError and the status of the response.
ValidationErrorResponse(message) ==
    [status |-> 400, code |-> "VALIDATION_ERROR", message |-> message]

\* The 202 response.
Accepted(p, summary) ==
    [status |-> 202, totalRows |-> p.totalRows,
     validRows |-> Len(p.validRows),
     invalidRows |-> Len(p.invalidRows) + Len(p.duplicates),
     message |-> "Job queued for processing",
     errorSummary |-> Slice(summary, SummaryLimit)]

\* The request up to its first repository call: the two checks of the row
\* count, then the column mapping and the validation of the rows.
UploadReceive ==
    /\ upload.pc = "idle"
    /\ IF Len(parsedRows) = 0
       THEN /\ upload' = [pc |-> "done",
                          response |-> ValidationErrorResponse("CSV file is empty")]
            /\ UNCHANGED <<columnMapping, parsed>>
       ELSE IF TooManyRows(Len(parsedRows), MAX_ROWS_PER_UPLOAD)
       THEN /\ upload' = [pc |-> "done",
                          response |-> ValidationErrorResponse(
                                         "Exceeded maximum rows per upload")]
            /\ UNCHANGED <<columnMapping, parsed>>
       ELSE /\ columnMapping' = << detectColumnMapping(Keys(parsedRows[1])) >>
            /\ parsed' = << validatePayrollRows(parsedRows, columnMapping'[1]) >>
            /\ upload' = [upload EXCEPT !.pc = "createJob"]
    /\ UNCHANGED <<systemVars, libVars, MAX_ROWS_PER_UPLOAD, TZ, parsedRows>>

\* prisma.bulkPayrollJob.create
UploadCreateJob ==
    /\ upload.pc = "createJob"
    /\ bulkPayrollJob' =
         << NewJob(Owner, parsed[1].totalRows, Len(parsed[1].validRows),
                   Len(parsed[1].invalidRows) + Len(parsed[1].duplicates))
            @@ [errorSummary |-> Stringify(ErrorSummary(parsed[1]))] >>
    /\ upload' = [upload EXCEPT !.pc = IF Len(parsed[1].validRows) > 0
                                       THEN "createRows" ELSE "enqueue"]
    /\ UNCHANGED <<config, bulkPayrollRow, queue, deliveries, wk, settled, cancel,
                   libVars, MAX_ROWS_PER_UPLOAD, TZ, parsedRows, columnMapping, parsed>>

\* prisma.bulkPayrollRow.createMany({ data: rowsToCreate })
UploadCreateRows ==
    /\ upload.pc = "createRows"
    /\ bulkPayrollRow' =
         [k \in 1..Len(parsed[1].validRows) |->
            RowToCreate(parsedRows, parsed[1].validRows, k - 1)]
    /\ upload' = [upload EXCEPT !.pc = "enqueue"]
    /\ UNCHANGED <<config, bulkPayrollJob, queue, deliveries, wk, settled, cancel,
                   libVars, MAX_ROWS_PER_UPLOAD, TZ, parsedRows, columnMapping, parsed>>

\* queue.add when REDIS_URL is set, and the 202 response.
UploadEnqueue ==
    /\ upload.pc = "enqueue"
    /\ queue' = queue + Enqueue(REDIS_URL)
    /\ upload' = [pc |-> "done",
                  response |-> Accepted(parsed[1], ErrorSummary(parsed[1]))]
    /\ UNCHANGED <<config, bulkPayrollJob, bulkPayrollRow, deliveries, wk, settled,
                   cancel, libVars, MAX_ROWS_PER_UPLOAD, TZ, parsedRows, columnMapping,
                   parsed>>

\* A row whose columns carry aliases and other casings.
AliasRow ==
    << <<"Email", "a@x.com">>, <<"salary", "1500.00">>, <<"currency", "usd">>,
       <<" Pay_Date ", "<today+1>">> >>

\* Long batches repeat one valid and one invalid row.
LongBatchRows ==
    { Row(Undefined, "a@x.com", "1500.00", "usd", "<today+1>"),
      Row(Undefined, "bad-email", "abc", "ZZZ", "<today+1>") }

UploadBatches ==
    Batches(RawRows \cup {AliasRow}, MaxValidateRows)
    \cup UNION {[1..n -> LongBatchRows] : n \in (MaxValidateRows + 1)..MaxLongBatch}

InitUpload ==
    /\ parsedRows \in UploadBatches
    /\ MAX_ROWS_PER_UPLOAD \in {SmallRowLimit, DefaultMaxRowsPerUpload}
    /\ TZ = 0
    /\ REDIS_URL \in BOOLEAN
    /\ upload = NoUpload
    /\ columnMapping = << >>
    /\ parsed = << >>
    /\ LibIdle
    /\ BATCH_SIZE = 1 /\ MAX_RETRIES = 0
    /\ bulkPayrollJob = << >> /\ bulkPayrollRow = << >>
    /\ queue = 0 /\ deliveries = 0
    /\ wk = [w \in Workers |-> IdleWorker]
    /\ settled = NULL
    /\ cancel = [c \in Cancels |-> NewCancel]

NextUpload ==
    \/ UploadReceive
    \/ UploadCreateJob
    \/ UploadCreateRows
    \/ UploadEnqueue

SpecUpload == InitUpload /\ [][NextUpload]_vars

\* The upload request has been answered with the given status.
Answered(status) == upload.pc = "done" /\ upload.response.status = status

\* C16: an upload of no rows or of more than MAX_ROWS_PER_UPLOAD rows is
\* answered 400 with a validation error, no row having been validated, and
\* leaves no job, no row and no unit of work behind.
C16_EmptyOrOversizedUploadRejected ==
    (upload.pc # "idle"
     /\ (Len(parsedRows) = 0 \/ Len(parsedRows) > MAX_ROWS_PER_UPLOAD)) =>
        /\ Answered(400)
        /\ upload.response.code = "VALIDATION_ERROR"
        /\ columnMapping = << >>
        /\ parsed = << >>
        /\ bulkPayrollJob = << >>
        /\ bulkPayrollRow = << >>
        /\ queue = 0

\* An upload of one row more than the configured limit has been rejected.
C16_Witness ==
    /\ Answered(400)
    /\ Len(parsedRows) = MAX_ROWS_PER_UPLOAD + 1
    /\ REDIS_URL

\* Input indices of the rows in invalidRows or duplicates.
RejectedIndices == InvalidIndices \cup DuplicateIndices

\* The n smallest elements of a set of numbers.
Smallest(S, n) == {x \in S : Cardinality({y \in S : y < x}) < n}

\* C17: the errorSummary of the upload result lists the first 20 rows that
\* are invalid or duplicates: with k such rows it has min(k, 20) entries,
\* those of the lowest row indices; and the invalidRows of the result is
\* the number of invalid rows plus the number of duplicates.
C17_ErrorSummaryListsFirstTwenty ==
    Answered(202) =>
        LET summary == upload.response.errorSummary
            k == Cardinality(RejectedIndices)
        IN  /\ Len(summary) = Min(k, SummaryLimit)
            /\ {summary[e].rowIndex : e \in DOMAIN summary}
                 = Smallest(RejectedIndices, SummaryLimit)
            /\ upload.response.invalidRows
                 = Len(Parsed.invalidRows) + Len(Parsed.duplicates)
            /\ Job.invalidRows = upload.response.invalidRows

\* C18: after an accepted upload the job is QUEUED with processedRows 0 and
\* failedRows 0, and the job has exactly validRows rows, all PENDING with
\* attempts 0, numbered 0..validRows-1 in the order of validRows (not by
\* input index).
C18_AcceptedUploadCreatesDenseRows ==
    Answered(202) =>
        /\ JobExists
        /\ Job.status = "QUEUED"
        /\ Job.processedRows = 0
        /\ Job.failedRows = 0
        /\ Job.validRows = Len(Parsed.validRows)
        /\ Len(bulkPayrollRow) = Job.validRows
        /\ \A k \in DOMAIN bulkPayrollRow :
             /\ bulkPayrollRow[k].status = "PENDING"
             /\ bulkPayrollRow[k].attempts = 0
             /\ bulkPayrollRow[k].rowIndex = k - 1
             /\ bulkPayrollRow[k].normalized = Stringify(Parsed.validRows[k])

\* An accepted upload whose first row is invalid: the two rows created are
\* numbered 0 and 1 while their input indices are 1 and 2.
C18_Witness ==
    /\ Answered(202)
    /\ InvalidIndices = {0}
    /\ ValidIndices = {1, 2}
    /\ Len(bulkPayrollRow) = 2
    /\ bulkPayrollRow[1].rowIndex = 0
    /\ bulkPayrollRow[2].rowIndex = 1

(* ---------------------------------------------------------------------- *)
(* FakePaymentsAdapter                                                     *)
(* ---------------------------------------------------------------------- *)
MaxCalls == 2           \* calls of createPayment examined
MaxAdapters == 2        \* adapters constructed

DefaultSuccessRate == 800   \* 0.8, rates and random numbers in thousandths
DefaultLatencyMs == 100
DefaultSeed == 42

\* options.name ?? default, the options being a function on the names given.
Option(options, name, default) ==
    IF name \in DOMAIN options THEN options[name] ELSE default

\* new FakePaymentsAdapter(options)
NewAdapter(options) ==
    [successRate |-> Option(options, "successRate", DefaultSuccessRate),
     latencyMs |-> Option(options, "latencyMs", DefaultLatencyMs),
     seed |-> Option(options, "seed", DefaultSeed)]

\* text.charCodeAt(i) for i = 0..text.length-1
CharCodes(text) ==
    CASE text = "a@x.com" -> <<97, 64, 120, 46, 99, 111, 109>>
      [] text = "EMP001" -> <<69, 77, 80, 48, 48, 49>>
      [] text = "10.5" -> <<49, 48, 46, 53>>
      [] text = "10" -> <<49, 48>>
      [] text = "2025-11-01" -> <<50, 48, 50, 53, 45, 49, 49, 45, 48, 49>>
      [] text = "2025-11-05" -> <<50, 48, 50, 53, 45, 49, 49, 45, 48, 53>>
      [] text = ":" -> <<58>>
      [] text = "_error" -> <<95, 101, 114, 114, 111, 114>>

\* `${amount}` of an amount counted in thousandths
NumberToString(amount) ==
    CASE amount = 10500 -> "10.5"
      [] amount = 10000 -> "10"

\* A 32-bit integer is the pair <<high, low>> of its 16-bit halves in two's
\* complement.
Half == 65536

ToInt32(n) == <<(n \div Half) % Half, n % Half>>

\* hash = (hash << 5) - hash + code; hash = hash & hash: 31 * hash + code
\* reduced to 32 bits.
HashStep(hash, code) ==
    LET low == hash[2] * 31 + code
    IN  <<(hash[1] * 31 + low \div Half) % Half, low % Half>>

RECURSIVE HashUpTo(_, _, _)
HashUpTo(seed, codes, i) ==
    IF i = 0 THEN ToInt32(seed)
    ELSE HashStep(HashUpTo(seed, codes, i - 1), codes[i])

\* Math.abs(hash) % 1000: a pair with the top bit set stands for the
\* negative number whose absolute value is 2^32 minus its unsigned value.
AbsMod1000(hash) ==
    IF hash[1] < Half \div 2
    THEN (hash[1] * (Half % 1000) + hash[2]) % 1000
    ELSE ((Half - hash[1]) * (Half % 1000) - hash[2]) % 1000

\* seededRandom(input) of an adapter with the given seed, in thousandths,
\* the input being given by its character codes.
seededRandom(seed, codes) == AbsMod1000(HashUpTo(seed, codes, Len(codes)))

errors ==
    <<"Insufficient funds", "Invalid account", "Daily limit exceeded",
      "Temporary service unavailable", "Invalid currency for recipient">>

\* `${employee_id || employee_email}:${amount}:${pay_date}`
AdapterKey(input) ==
    CharCodes(IdOrEmail(input)) \o CharCodes(":")
    \o CharCodes(NumberToString(input.amount)) \o CharCodes(":")
    \o CharCodes(input.pay_date)

\* Math.floor(seededRandom(key + '_error') * errors.length)
ErrorIndex(seed, codes) ==
    (seededRandom(seed, codes \o CharCodes("_error")) * Len(errors)) \div 1000

\* The result of a slow adapter is a failure whatever the random number.
createPaymentSlowFails(adapter, input, now, random) ==
    LET key == AdapterKey(input)
        rand == seededRandom(adapter.seed, key)
    IN  IF rand < adapter.successRate /\ adapter.latencyMs < DefaultLatencyMs
        THEN [success |-> TRUE, id |-> <<"fake", now, random>>, error |-> << >>]
        ELSE [success |-> FALSE, id |-> << >>,
              error |-> << errors[ErrorIndex(adapter.seed, key) + 1] >>]

\* createPayment(input) of an adapter, Date.now() and Math.random() being
\* now and random. An absent id or error is the empty sequence.
createPayment(adapter, input, now, random) ==
    LET key == AdapterKey(input)
        rand == seededRandom(adapter.seed, key)
    IN  IF rand < adapter.successRate
        THEN [success |-> TRUE, id |-> <<"fake", now, random>>, error |-> << >>]
        ELSE [success |-> FALSE, id |-> << >>,
              error |-> << errors[ErrorIndex(adapter.seed, key) + 1] >>]

(* ---------------------------------------------------------------------- *)
(* createPayment applied by constructed adapters to drawn rows             *)
(* ---------------------------------------------------------------------- *)
\* Options given to the constructor: each of the three may be absent.
OptionValues ==
    [successRate |-> {0, 500, 1000}, latencyMs |-> {0}, seed |-> {7}]

AdapterOptions ==
    UNION {{options \in [names -> UNION {OptionValues[n] : n \in names}] :
              \A name \in names : options[name] \in OptionValues[name]} :
           names \in SUBSET DOMAIN OptionValues}

\* Normalized rows: one identified by e-mail only, one by employee id.
AdapterRows ==
    { [employee_id |-> "", employee_email |-> "a@x.com",
       amount |-> 10500, currency |-> "USD", pay_date |-> "2025-11-01"],
      [employee_id |-> "EMP001", employee_email |-> "a@x.com",
       amount |-> 10000, currency |-> "USD", pay_date |-> "2025-11-05"] }

Nows == {1, 2}          \* values of Date.now()
Randoms == {"r1", "r2"} \* values of Math.random().toString(36).substr(2, 9)

InitAdapter ==
    /\ adapters = << >>
    /\ results = << >>
    /\ headers = << >>
    /\ csv = NoCsv
    /\ UploadIdle
    /\ BATCH_SIZE = 1 /\ MAX_RETRIES = 0 /\ REDIS_URL = FALSE
    /\ bulkPayrollJob = << >> /\ bulkPayrollRow = << >>
    /\ queue = 0 /\ deliveries = 0
    /\ wk = [w \in Workers |-> IdleWorker]
    /\ settled = NULL
    /\ cancel = [c \in Cancels |-> NewCancel]

\* new FakePaymentsAdapter(options)
Construct ==
    /\ Len(adapters) < MaxAdapters
    /\ \E options \in AdapterOptions :
         adapters' = Append(adapters, NewAdapter(options))
    /\ UNCHANGED <<systemVars, uploadVars, headers, results, csv>>

\* await adapter.createPayment(input), after the delay of latencyMs.
CreatePayment ==
    /\ Len(results) < MaxCalls
    /\ \E a \in DOMAIN adapters, input \in AdapterRows, now \in Nows,
          random \in Randoms :
         results' = Append(results,
                           [adapter |-> a, input |-> input,
                            delay |-> adapters[a].latencyMs,
                            result |-> createPayment(adapters[a], input, now,
                                                     random)])
    /\ UNCHANGED <<systemVars, uploadVars, headers, adapters, csv>>

NextAdapter == Construct \/ CreatePayment

SpecAdapter == InitAdapter /\ [][NextAdapter]_vars

\* The adapter of a recorded call.
AdapterOf(call) == adapters[call.adapter]

\* C20: two calls for the same row by adapters with the same seed and
\* successRate have the same success flag and the same error, whatever the
\* latencyMs of the adapters; an adapter with successRate 1.0 succeeds on
\* every call and an adapter with successRate 0.0 fails on every call.
C20_AdapterDeterministic ==
    /\ \A x, y \in DOMAIN results :
         (/\ AdapterOf(results[x]).seed = AdapterOf(results[y]).seed
          /\ AdapterOf(results[x]).successRate = AdapterOf(results[y]).successRate
          /\ results[x].input = results[y].input)
         => /\ results[x].result.success = results[y].result.success
            /\ results[x].result.error = results[y].result.error
    /\ \A x \in DOMAIN results :
         /\ AdapterOf(results[x]).successRate = 1000 => results[x].result.success
         /\ AdapterOf(results[x]).successRate = 0 => ~results[x].result.success
         /\ ~results[x].result.success => Len(results[x].result.error) = 1

\* Two adapters of seed 7 and successRate 0.5, one without delay and one
\* with the default delay, both fail the row of EMP001 with the same error,
\* which an adapter of the default seed would have paid.
C20_Witness ==
    /\ Len(results) = 2
    /\ results[1].adapter # results[2].adapter
    /\ AdapterOf(results[1]).seed = 7
    /\ AdapterOf(results[2]).seed = 7
    /\ AdapterOf(results[1]).successRate = 500
    /\ AdapterOf(results[2]).successRate = 500
    /\ results[1].delay = 0
    /\ results[2].delay = DefaultLatencyMs
    /\ results[1].input = results[2].input
    /\ results[1].input.employee_id = "EMP001"
    /\ ~results[1].result.success
    /\ results[1].result.error = <<"Invalid account">>
    /\ results[2].result.error = <<"Invalid account">>
    /\ createPayment(NewAdapter([successRate |-> 500]), results[1].input,
                     1, "r1").success

(* ---------------------------------------------------------------------- *)
(* The row schema applied to one drawn row in a drawn time zone            *)
(* ---------------------------------------------------------------------- *)
AmountTexts ==
    {"1500", "1000000.00", "1000000.01", "0", "-5", "100.999", "100.99",
     "100.990", "0.01", "abc", ""}

DateTexts ==
    {"<today-31>", "<today-30>", "<today+1>", "<today+365>", "<today+366>",
     "tomorrow"}

\* Rows with canonical column names: every combination of an absent, empty,
\* well-formed or malformed identifier with the amounts, two currencies and
\* the dates.
SchemaRows ==
    {Row(id, email, amount, currency, date) :
       id \in {Undefined, "", "EMP001"},
       email \in {Undefined, "", "a@x.com", "bad-email"},
       amount \in AmountTexts,
       currency \in {"USD", "ZZZ"},
       date \in DateTexts}

\* Offsets of the local time of the process from UTC, in minutes.
TimeZones == {-300, 0, 330}

InitSchema ==
    /\ parsedRows \in {<< row >> : row \in SchemaRows}
    /\ columnMapping = << MappingWithout({}) >>
    /\ parsed = << >>
    /\ TZ \in TimeZones
    /\ MAX_ROWS_PER_UPLOAD = DefaultMaxRowsPerUpload
    /\ upload = NoUpload
    /\ LibIdle
    /\ BATCH_SIZE = 1 /\ MAX_RETRIES = 0 /\ REDIS_URL = FALSE
    /\ bulkPayrollJob = << >> /\ bulkPayrollRow = << >>
    /\ queue = 0 /\ deliveries = 0
    /\ wk = [w \in Workers |-> IdleWorker]
    /\ settled = NULL
    /\ cancel = [c \in Cancels |-> NewCancel]

NextSchema == Validate

SpecSchema == InitSchema /\ [][NextSchema]_vars

\* The cell of the drawn row under a column, and whether the row was
\* accepted.
Cell(column) == Get(parsedRows[1], column)
RowAccepted == Len(Parsed.validRows) = 1

\* The messages of the error list of the rejected row.
ErrorMessages ==
    {Parsed.invalidRows[1].errors[k].error :
       k \in DOMAIN Parsed.invalidRows[1].errors}

\* The drawn row is valid in every field but the given one.
ValidBut(field) ==
    /\ Cell("employee_email") = "a@x.com"
    /\ Cell("employee_id") \in {Undefined, "", "EMP001"}
    /\ field = "amount" \/ Cell("amount") = "1500"
    /\ Cell("currency") = "USD"
    /\ field = "pay_date" \/ Cell("pay_date") = "<today+1>"

\* Digits after the decimal point in the text of an amount.
DigitsInText(text) ==
    CASE text \in {"100.999", "100.990"} -> 3
      [] text \in {"1000000.00", "1000000.01", "100.99", "0.01"} -> 2
      [] OTHER -> 0

\* Digits after the decimal point in the shortest decimal writing of a
\* number counted in thousandths.
DigitsInNumber(n) ==
    IF n % 1000 = 0 THEN 0
    ELSE IF n % 100 = 0 THEN 1
    ELSE IF n % 10 = 0 THEN 2 ELSE 3

OneMillion == 1000000 * 1000

C22_DateWindowInclusive ==
    (/\ Len(parsed) = 1
     /\ ValidBut("pay_date")
     /\ MatchesDatePattern(Cell("pay_date"))) =>
        (RowAccepted <=>
            /\ DayOffset(Cell("pay_date")) >= -30
            /\ DayOffset(Cell("pay_date")) <= 365)

\* C23: a row with neither employee_id nor employee_email is rejected and
\* its error list has the cross-field error, whatever its other fields.
C23_MissingIdentityReported ==
    (/\ Len(parsed) = 1
     /\ Cell("employee_id") \in {Undefined, ""}
     /\ Cell("employee_email") \in {Undefined, ""}) =>
        /\ ~RowAccepted
        /\ Len(Parsed.invalidRows) = 1
        /\ "At least one of employee_id or employee_email must be provided"
             \in ErrorMessages

(* ---------------------------------------------------------------------- *)
(* rowsToCSV and parseCSV                                                  *)
(* ---------------------------------------------------------------------- *)
\* A text is the sequence of its characters.
Quote == "\""
Newline == "\n"
Comma == ","
Trimable == {" ", "\t"}     \* white space an unquoted line can hold

\* parts.join(sep)
RECURSIVE Join(_, _)
Join(parts, sep) ==
    IF Len(parts) = 0 THEN << >>
    ELSE IF Len(parts) = 1 THEN parts[1]
    ELSE parts[1] \o sep \o Join(Tail(parts), sep)

\* value.replace(/"/g, '""')
RECURSIVE ReplaceQuotes(_)
ReplaceQuotes(value) ==
    IF value = << >> THEN << >>
    ELSE (IF Head(value) = Quote THEN <<Quote, Quote>> ELSE <<Head(value)>>)
         \o ReplaceQuotes(Tail(value))

\* value.includes(ch)
Includes(value, ch) == \E p \in DOMAIN value : value[p] = ch

\* data[h] || ''
ValueOrEmpty(data, h) == IF h \in DOMAIN data THEN data[h] ELSE << >>

\* The cell written for a value: quoted, its quotes doubled, when it holds
\* a comma, a quote or a newline.
EscapeValue(value) ==
    IF Includes(value, Comma) \/ Includes(value, Quote)
       \/ Includes(value, Newline)
    THEN <<Quote>> \o ReplaceQuotes(value) \o <<Quote>>
    ELSE value

rowsToCSV(rows, allHeaders) ==
    LET header == Join(allHeaders, <<Comma>>)
        Line(i) ==
            Join([k \in DOMAIN allHeaders |->
                    EscapeValue(ValueOrEmpty(rows[i].data, allHeaders[k]))],
                 <<Comma>>)
    IN  Join(<<header>> \o [i \in DOMAIN rows |-> Line(i)], <<Newline>>)

\* The parser of csv-parse reads a character as data while it is inside a
\* quoted field, that is after an odd number of quotes.
QuotesBefore(text, p) == Cardinality({q \in 1..(p - 1) : text[q] = Quote})

Unquoted(text, ch) ==
    {p \in DOMAIN text : text[p] = ch /\ QuotesBefore(text, p) % 2 = 0}

\* The k-th smallest element of a set of positions, and the elements of a
\* sequence at the positions of a set.
Nth(S, k) == CHOOSE p \in S : Cardinality({q \in S : q < p}) = k - 1
Pick(seq, S) == [k \in 1..Cardinality(S) |-> seq[Nth(S, k)]]

\* The pieces of a text between the delimiters that are outside quotes.
Split(text, ch) ==
    LET cuts == Unquoted(text, ch)
        n == Cardinality(cuts)
        Cut(k) == IF k = 0 THEN 0
                  ELSE IF k = n + 1 THEN Len(text) + 1 ELSE Nth(cuts, k)
    IN  [k \in 1..(n + 1) |-> SubSeq(text, Cut(k - 1) + 1, Cut(k) - 1)]

\* The content of a quoted field: each doubled quote is one quote.
Unescape(content) ==
    Pick(content, {p \in DOMAIN content :
                     ~(content[p] = Quote /\ QuotesBefore(content, p) % 2 = 1)})

\* The value of a field with trim: true: white space around the field is
\* dropped, white space inside quotes is kept.
FieldValue(field) ==
    LET solid == {p \in DOMAIN field : field[p] \notin Trimable}
        first == CHOOSE p \in solid : \A q \in solid : p <= q
        last == CHOOSE p \in solid : \A q \in solid : q <= p
    IN  IF solid = {} THEN << >>
        ELSE IF field[first] = Quote
        THEN Unescape(SubSeq(field, first + 1, last - 1))
        ELSE SubSeq(field, first, last)

\* skip_empty_lines: a line without a field, a quote or a character that
\* is kept.
EmptyLine(line) == \A p \in DOMAIN line : line[p] \in Trimable

\* parse(content, {columns: true, skip_empty_lines: true, trim: true}): the
\* first record names the columns, a record of another length throws.
Parse(content) ==
    LET lines == Split(content, Newline)
        kept == Pick(lines, {k \in DOMAIN lines : ~EmptyLine(lines[k])})
        Record(k) == LET fields == Split(kept[k], Comma)
                     IN  [f \in DOMAIN fields |-> FieldValue(fields[f])]
        columns == Record(1)
        names == {columns[c] : c \in DOMAIN columns}
        Object(k) ==
            [name \in names |->
               Record(k)[CHOOSE c \in DOMAIN columns :
                           /\ columns[c] = name
                           /\ \A d \in DOMAIN columns :
                                columns[d] = name => d <= c]]
    IN  IF Len(kept) = 0
        THEN [threw |-> FALSE, columns |-> << >>, records |-> << >>]
        ELSE IF \E k \in 2..Len(kept) : Len(Record(k)) # Len(columns)
        THEN [threw |-> TRUE, columns |-> << >>, records |-> << >>]
        ELSE [threw |-> FALSE, columns |-> columns,
              records |-> [k \in 1..(Len(kept) - 1) |-> Object(k + 1)]]

\* parseCSV(csvContent): no headers when there is no record.
parseCSV(csvContent) ==
    LET result == Parse(csvContent)
    IN  IF result.threw
        THEN [threw |-> TRUE, headers |-> << >>, rows |-> << >>]
        ELSE IF Len(result.records) = 0
        THEN [threw |-> FALSE, headers |-> << >>, rows |-> << >>]
        ELSE [threw |-> FALSE, headers |-> result.columns,
              rows |-> result.records]

(* ---------------------------------------------------------------------- *)
(* rowsToCSV and parseCSV applied to drawn rows                            *)
(* ---------------------------------------------------------------------- *)
MaxCsvRows == 2         \* rows handed to rowsToCSV

\* Values: empty, plain, with a comma, a quote, a newline, a leading blank,
\* and a comma followed by a quote.
CsvValues ==
    { << >>, <<"a">>, <<"a", Comma, "b">>, <<Quote>>, <<"a", Newline, "b">>,
      <<" ", "a">>, <<Comma, Quote>> }

HeaderLists == { << <<"h">> >>, << <<"h">>, <<"k">> >> }

CsvInputs ==
    UNION {{[rows |-> [i \in DOMAIN datas |->
                         [rowIndex |-> i - 1, data |-> datas[i]]],
             allHeaders |-> hs, content |-> << >>, parsed |-> << >>] :
              datas \in Batches([{hs[k] : k \in DOMAIN hs} -> CsvValues],
                                MaxCsvRows)} :
           hs \in HeaderLists}

InitCsv ==
    /\ csv \in CsvInputs
    /\ headers = << >>
    /\ adapters = << >>
    /\ results = << >>
    /\ UploadIdle
    /\ BATCH_SIZE = 1 /\ MAX_RETRIES = 0 /\ REDIS_URL = FALSE
    /\ bulkPayrollJob = << >> /\ bulkPayrollRow = << >>
    /\ queue = 0 /\ deliveries = 0
    /\ wk = [w \in Workers |-> IdleWorker]
    /\ settled = NULL
    /\ cancel = [c \in Cancels |-> NewCancel]

\* const csv = rowsToCSV(rows, allHeaders)
Export ==
    /\ csv.content = << >>
    /\ csv' = [csv EXCEPT !.content = << rowsToCSV(csv.rows, csv.allHeaders) >>]
    /\ UNCHANGED <<systemVars, uploadVars, headers, adapters, results>>

\* parseCSV(csv)
Reparse ==
    /\ csv.content # << >>
    /\ csv.parsed = << >>
    /\ csv' = [csv EXCEPT !.parsed = << parseCSV(csv.content[1]) >>]
    /\ UNCHANGED <<systemVars, uploadVars, headers, adapters, results>>

NextCsv == Export \/ Reparse

SpecCsv == InitCsv /\ [][NextCsv]_vars

\* C24: parsing the text written by rowsToCSV gives the headers and, for
\* every row and header, the value that was written.
C24_CsvRoundTrip ==
    csv.parsed # << >> =>
        /\ ~csv.parsed[1].threw
        /\ csv.parsed[1].headers = csv.allHeaders
        /\ Len(csv.parsed[1].rows) = Len(csv.rows)
        /\ \A i \in DOMAIN csv.rows, k \in DOMAIN csv.allHeaders :
             csv.parsed[1].rows[i][csv.allHeaders[k]]
               = csv.rows[i].data[csv.allHeaders[k]]

(* ---------------------------------------------------------------------- *)
(* Upload, cancel and worker together, call by call                        *)
(* ---------------------------------------------------------------------- *)
\* Some worker process is executing the unit of the job: the unit is
\* active and locked by that process.
UnitLocked == \E w \in Workers : Exec(w).pc # "idle"

\* queue.getJobs(['active', 'waiting', 'delayed']) and queuedJob.remove()
\* of the units of this job when none of them is locked.
CancelRemoveWaiting(c) ==
    /\ cancel[c].pc = "remove"
    /\ ~UnitLocked
    /\ queue' = 0
    /\ cancel' = [cancel EXCEPT ![c].pc = "update"]
    /\ UNCHANGED <<config, uploadVars, libVars, bulkPayrollJob, bulkPayrollRow,
                   deliveries, wk, settled>>

\* queuedJob.remove() of a unit a worker has locked rejects: the route
\* answers 500 and does not reach its update.
CancelRemoveLocked(c) ==
    /\ cancel[c].pc = "remove"
    /\ UnitLocked
    /\ cancel' = [cancel EXCEPT ![c] = Respond(@, 500)]
    /\ UNCHANGED <<config, uploadVars, libVars, bulkPayrollJob, bulkPayrollRow,
                   queue, deliveries, wk, settled>>

\* Uploads of one and of two valid rows.
CancelBatches ==
    { << Row(Undefined, "a@x.com", "1500.00", "usd", "<today+1>") >>,
      << Row(Undefined, "a@x.com", "1500.00", "usd", "<today+1>"),
         Row(Undefined, "b@x.com", "1500.00", "usd", "<today+1>") >> }

InitCancel ==
    /\ parsedRows \in CancelBatches
    /\ MAX_ROWS_PER_UPLOAD = DefaultMaxRowsPerUpload
    /\ TZ = 0
    /\ REDIS_URL \in BOOLEAN
    /\ upload = NoUpload
    /\ columnMapping = << >>
    /\ parsed = << >>
    /\ LibIdle
    /\ BATCH_SIZE \in 1..MaxBatchSize
    /\ MAX_RETRIES = 1
    /\ bulkPayrollJob = << >> /\ bulkPayrollRow = << >>
    /\ queue = 0 /\ deliveries = 0
    /\ wk = [w \in Workers |-> IdleWorker]
    /\ settled = NULL
    /\ cancel = [c \in Cancels |-> NewCancel]

NextCancel ==
    \/ UploadReceive
    \/ UploadCreateJob
    \/ UploadCreateRows
    \/ UploadEnqueue
    \/ \E w \in Workers : Pickup(w)
    \/ \E w \in Workers : FindJob(w)
    \/ \E w \in Workers : SetProcessing(w)
    \/ \E w \in Workers, k \in 1..MaxBatchSize, o \in Outcomes : Attempt(w, k, o)
    \/ \E w \in Workers : PersistRow(w)
    \/ \E w \in Workers : UpdateProgress(w)
    \/ \E w \in Workers : Complete(w)
    \/ \E c \in Cancels, u \in Users : CancelFind(c, u)
    \/ \E c \in Cancels : CancelRemoveWaiting(c)
    \/ \E c \in Cancels : CancelRemoveLocked(c)
    \/ \E c \in Cancels : CancelUpdate(c)

SpecCancel == InitCancel /\ [][NextCancel]_vars

\* The job was cancelled while QUEUED and no execution has started since:
\* startedAt is set by the PROCESSING write only.
CancelledWhileQueued ==
    /\ JobExists
    /\ Job.status = "CANCELLED"
    /\ ~Job.startedAt

\* C25: from a state in which the job was cancelled while QUEUED, no step
\* is a createPayment call, and after the step the job is still CANCELLED
\* and not started and every row is PENDING.
C25_CancelledQueuedJobNeverRuns ==
    [][CancelledWhileQueued =>
         /\ CancelledWhileQueued'
         /\ \A k \in DOMAIN bulkPayrollRow' : bulkPayrollRow'[k].status = "PENDING"
         /\ ~\E w \in Workers, k \in 1..MaxBatchSize, o \in Outcomes :
               Attempt(w, k, o)]_vars

(* ---------------------------------------------------------------------- *)
(* Order of the batches                                                    *)
(* ---------------------------------------------------------------------- *)
\* Every row before offset i of the snapshot is persisted as SUCCESS or
\* FAILED, and the counters written last are those of the batch that ends
\* at offset i.
BatchesBeforePersisted(w) ==
    /\ \A k \in 1..Exec(w).i : bulkPayrollRow[k].status \in TerminalRow
    /\ Exec(w).i > 0 =>
         /\ Job.processedRows = Exec(w).i
         /\ Job.failedRows = Exec(w).failedCount

\* C26: a createPayment call is made for a row of the current batch only
\* when every row of the batches before it is persisted as SUCCESS or
\* FAILED and the job's counters for those batches are written.
C26_BatchesInOrder ==
    [][\A w \in Workers, k \in 1..MaxBatchSize, o \in Outcomes :
         Attempt(w, k, o) => BatchesBeforePersisted(w)]_vars

\* A call has been made in the second batch of an execution.
C26_Witness ==
    \E w \in Workers :
        /\ Exec(w).pc = "rows"
        /\ Exec(w).i > 0
        /\ \E k \in DOMAIN Exec(w).proc : Exec(w).proc[k].calls > 0
        /\ BatchesBeforePersisted(w)

(* ---------------------------------------------------------------------- *)
(* Backoff between the attempts of a row                                   *)
(* ---------------------------------------------------------------------- *)
\* C27: the a-th createPayment call of a row is never made after a success;
\* when it fails and a is below the retry limit the procedure waits
\* 2^(a-1) seconds and makes another attempt; when it fails and a reaches
\* the limit, or when it succeeds, the procedure returns without waiting.
C27_ExponentialBackoff ==
    [][\A w \in Workers, k \in 1..MaxBatchSize, o \in Outcomes :
         Attempt(w, k, o) =>
           LET before == wk[w].proc[k]
               after == wk'[w].proc[k]
               a == before.attempts + 1
           IN  /\ ~before.success
               /\ after.attempts = a
               /\ o.kind = "success" =>
                    after.pc = "done" /\ after.success /\ after.delay = 0
               /\ (o.kind # "success" /\ a < MAX_RETRIES) =>
                    after.pc = "call" /\ after.delay = (2 ^ (a - 1)) * 1000
               /\ (o.kind # "success" /\ a >= MAX_RETRIES) =>
                    after.pc = "done" /\ ~after.success /\ after.delay = 0]_vars

\* A row waits 4 seconds after its third failed attempt of four.
C27_Witness ==
    /\ MAX_RETRIES = 4
    /\ \E w \in Workers : \E k \in DOMAIN Exec(w).proc :
         /\ Exec(w).proc[k].attempts = 3
         /\ Exec(w).proc[k].pc = "call"
         /\ Exec(w).proc[k].delay = 4000

(* ---------------------------------------------------------------------- *)
(* Failures of the payments adapter                                        *)
(* ---------------------------------------------------------------------- *)

\* A createPayment call that reported a failure or threw.
FailedCall(o) == o.kind # "success"

\* The processor has left its try block with an error of a repository call.
RepositoryFailed == settled \notin {NULL, "completed"}

AllRowsPersisted ==
    /\ JobExists
    /\ \A k \in RowIds :
         /\ bulkPayrollRow[k].status \in TerminalRow
         /\ bulkPayrollRow[k].attempts >= Min(1, MAX_RETRIES)

\* C28: a createPayment call that reports a failure or throws leaves the
\* job record and the outcome of the unit of work as they are, leaves the
\* promise of its row pending or fulfilled (never rejected), leaves the
\* other rows of the batch and the batch loop as they are; the catch block
\* that writes FAILED is entered only from a rejected repository call; and
\* unless a repository call rejects, every row of a picked-up job is
\* eventually attempted and persisted.
C28_AdapterFailuresStayInRow ==
    /\ [][\A w \in Workers, k \in 1..MaxBatchSize, o \in Outcomes :
            (Attempt(w, k, o) /\ FailedCall(o)) =>
              /\ bulkPayrollJob' = bulkPayrollJob
              /\ settled' = settled
              /\ wk'[w].pc = "rows"
              /\ wk'[w].error = wk[w].error
              /\ wk'[w].proc[k].pc \in {"call", "done"}
              /\ wk'[w].proc[k].pc = "done" => ~wk'[w].proc[k].success
              /\ \A m \in DOMAIN wk[w].proc :
                   m # k => wk'[w].proc[m] = wk[w].proc[m]]_vars
    /\ [][\A w \in Workers :
            (wk'[w].pc = "catch" /\ wk[w].pc # "catch") =>
              RepositoryError(w)]_vars
    /\ [][(JobExists /\ Job.status # "FAILED" /\ bulkPayrollJob'[1].status = "FAILED")
            => \E w \in Workers : Catch(w)]_vars
    /\ PickedUp ~> (AllRowsPersisted \/ RepositoryFailed)

\* In a batch of two rows the first row has used both of its attempts on a
\* reported failure and a thrown exception and is persisted FAILED, the
\* second is persisted SUCCESS, and the job is COMPLETED.
C28_Witness ==
    /\ JobExists
    /\ Job.status = "COMPLETED"
    /\ Job.failedRows = 1
    /\ BATCH_SIZE = 2
    /\ MAX_RETRIES = 2
    /\ Len(bulkPayrollRow) = 2
    /\ bulkPayrollRow[1].status = "FAILED"
    /\ bulkPayrollRow[1].attempts = 2
    /\ bulkPayrollRow[1].errorMessage = "Unknown error"
    /\ bulkPayrollRow[2].status = "SUCCESS"

(* ---------------------------------------------------------------------- *)
(* The input snapshot of a created row                                     *)
(* ---------------------------------------------------------------------- *)

\* The input index of the raw row that became validRows[k]: the rows of
\* validRows are in the order of the input, so it is the k-th smallest of
\* the indices that are neither invalid nor duplicates.
OriginOf(k) ==
    CHOOSE i \in ValidIndices :
        Cardinality({j \in ValidIndices : j < i}) = k - 1

\* C29: every row created by an accepted upload has as its input the text
\* of the raw row from which its normalized row was produced, also when
\* earlier input rows were invalid or duplicates.
C29_InputIsSourceRow ==
    Answered(202) =>
        \A k \in DOMAIN bulkPayrollRow :
            /\ bulkPayrollRow[k].normalized =
                 Stringify(SafeParse(MappedRow(parsedRows[OriginOf(k) + 1],
                                               columnMapping[1])).data)
            /\ bulkPayrollRow[k].input = Stringify(parsedRows[OriginOf(k) + 1])

(* ---------------------------------------------------------------------- *)
(* Order of the counters of a job                                          *)
(* ---------------------------------------------------------------------- *)

\* Positions of an execution after its counters were set to 0 and before
\* it has ended or entered the catch block.
InBatchLoop(e) == e.pc \in {"rows", "progress", "complete"}

\* C30: in every state of a job 0 <= failedRows <= processedRows <=
\* validRows; every write of an execution writes its local counters, and
\* from one step of an execution to the next these never decrease, so that
\* the values one execution writes never decrease from write to write.
C30_CountersOrdered ==
    /\ [](JobExists =>
            /\ 0 <= Job.failedRows
            /\ Job.failedRows <= Job.processedRows
            /\ Job.processedRows <= Job.validRows)
    /\ [][\A w \in Workers :
            (UpdateProgress(w) \/ Complete(w)) =>
              /\ bulkPayrollJob'[1].processedRows = wk[w].processedCount
              /\ bulkPayrollJob'[1].failedRows = wk[w].failedCount]_vars
    /\ [][\A w \in Workers :
            (InBatchLoop(wk[w]) /\ InBatchLoop(wk'[w])) =>
              /\ wk'[w].processedCount >= wk[w].processedCount
              /\ wk'[w].failedCount >= wk[w].failedCount
              /\ wk'[w].failedCount <= wk'[w].processedCount
              /\ wk'[w].processedCount <= wk'[w].n]_vars

\* After a first batch of one failed row the job shows 1 processed and 1
\* failed of 2 valid rows, and the execution is at its second batch.
C30_Witness ==
    /\ JobExists
    /\ Job.validRows = 2
    /\ Job.processedRows = 1
    /\ Job.failedRows = 1
    /\ Job.status = "PROCESSING"
    /\ \E w \in Workers : wk[w].pc = "rows" /\ wk[w].i = 1

====
